---- MODULE Spec2Model ----
(***************************************************************************)
(* Camera session lifecycle and frame acquisition of the Tiny-1C Python    *)
(* bindings.  The wrapper class TinyThermalCamera                          *)
(* (examples/tiny_thermal_camera_wrapper.py) is translated statement by    *)
(* statement.  The native extension object it drives                       *)
(* (tiny_thermal_camera.ThermalCamera) is compiled code whose source is    *)
(* not among the Python files; its operations, the Native* operators, are  *)
(* modelled from the design document's description of the device layer.    *)
(***************************************************************************)
EXTENDS Integers, Sequences, FiniteSets, TLC

\* ------------------------------------------------------------ bounds
\* Number of TinyThermalCamera objects alive in the process.
NumSessions == 2
\* Number of distinct frames the device can deliver (frame ids 1..MaxFrame).
MaxFrame == 2

Sessions == 1..NumSessions
FrameIds == 1..MaxFrame
\* The native camera of the ThermalCameraDemo object (thermal_camera_demo.py).
DemoCam == NumSessions + 1
\* Every native ThermalCamera object: one per wrapper, one for the demo.
Cams == Sessions \cup {DemoCam}

\* A zero-size array, as returned by the native getters when nothing is ready.
EmptyFrame == 0
\* Python's None, which capture_frame substitutes for a zero-size array.
None == -1

VARIABLES
    initialized,  \* initialized[s]: TinyThermalCamera._is_initialized
    nat,          \* nat[s]: state of the native ThermalCamera owned by s
    tslot,        \* driver's latest temperature frame (EmptyFrame: none ready)
    islot,        \* driver's latest visible-light frame (EmptyFrame: none)
    demoPc,       \* where ThermalCameraDemo.run_demo stands
    last,         \* the last call: who, what, from which state, result
    cap,          \* a capture_frame() call running on a thread of its own
    frame,        \* the raw temperature array the caller passes to queries
    prog,         \* the calling program: where it stands, what it has kept
    env,          \* the process environment: the library search path
    inst          \* where the driver installer's main() stands

vars == <<initialized, nat, tslot, islot, demoPc, last, cap, frame, prog,
          env, inst>>

\* ------------------------------------------------------ native layer
\* numpy's ndarray.size of a frame: 0 for the zero-size array.
FrameSize(f) == IF f = EmptyFrame THEN 0 ELSE 1

\* ThermalCamera.open(): succeeds from closed when the hardware/driver is
\* present and no other native session holds the device.
NativeOpen(n, avail, busy) ==
    IF n = "closed" /\ avail /\ ~busy
    THEN [state |-> "opened", ret |-> TRUE]
    ELSE [state |-> n, ret |-> FALSE]

\* ThermalCamera.close(): any state to closed, stopping an active stream.
NativeClose(n) == [state |-> "closed", ret |-> TRUE]

\* ThermalCamera.start_stream(): opened to streaming; hwok is whether the
\* device accepted the request.
NativeStartStream(n, hwok) ==
    IF n = "opened" /\ hwok
    THEN [state |-> "streaming", ret |-> TRUE]
    ELSE [state |-> n, ret |-> FALSE]

\* ThermalCamera.stop_stream(): streaming to opened; harmless otherwise.
NativeStopStream(n) ==
    IF n = "streaming"
    THEN [state |-> "opened", ret |-> TRUE]
    ELSE [state |-> n, ret |-> FALSE]

\* ThermalCamera.is_streaming() / is_open()
NativeIsStreaming(n) == n = "streaming"
NativeIsOpen(n) == n # "closed"

\* ThermalCamera.get_camera_info(): valid only once opened.
NativeGetCameraInfo(n) ==
    IF n = "closed" THEN "raise" ELSE "info"

\* ThermalCamera.get_temperature_frame() / get_image_frame(): the content of
\* the driver's latest-frame slot while streaming, the zero-size array
\* otherwise; never waits.
NativeGetTemperatureFrame(n, slot) ==
    IF n = "streaming" THEN slot ELSE EmptyFrame
NativeGetImageFrame(n, slot) ==
    IF n = "streaming" THEN slot ELSE EmptyFrame

\* Whether a native session other than s holds the device.
DeviceBusy(s) == \E t \in Cams \ {s} : nat[t] # "closed"

\* ----------------------------------------------------- wrapper state
\* TinyThermalCamera.is_open
IsOpen(s) == initialized[s]
\* TinyThermalCamera.is_streaming
IsStreaming(s) == IF initialized[s] THEN NativeIsStreaming(nat[s]) ELSE FALSE

\* The session state a caller observes through is_open / is_streaming.
State(s) ==
    IF ~IsOpen(s) THEN "Closed"
    ELSE IF IsStreaming(s) THEN "Streaming" ELSE "Opened"

\* The state of the demo's camera, which the demo reads from the native
\* object itself (camera.is_open(), camera.is_streaming()).
DemoState ==
    IF ~NativeIsOpen(nat[DemoCam]) THEN "Closed"
    ELSE IF NativeIsStreaming(nat[DemoCam]) THEN "Streaming" ELSE "Opened"

\* The record of a call that is about to run, before its outcome is known.
Call(s, op) ==
    [s |-> s, op |-> op,
     pre |-> IF s = DemoCam THEN DemoState ELSE State(s), preNat |-> nat[s],
     preT |-> tslot, preI |-> islot,
     res |-> "none", calls |-> <<>>,
     avail |-> FALSE, busy |-> FALSE,
     wait |-> FALSE, slept |-> FALSE,
     temp |-> None, image |-> None,
     args |-> <<>>, val |-> <<>>,
     before |-> [s |-> last.s, op |-> last.op]]

\* ------------------------------------------------------ frame data
\* A raw temperature frame is a numpy array of shape (height, width): a
\* sequence of rows, each a sequence of raw counts; a[y + 1][x + 1] is the
\* pixel in row y, column x.
FrameW == 3
FrameH == 2

\* The zero-size array.
EmptyArray == <<>>

Height(a) == Len(a)
Width(a) == IF Len(a) = 0 THEN 0 ELSE Len(a[1])
Size(a) == Height(a) * Width(a)

\* The calibration parameters of the device: raw counts CalLo..CalHi are the
\* calibrated band, CalLo reads as CalBase degrees Celsius and every further
\* count adds CalStep degrees.
CalLo == 1
CalHi == 2
CalBase == 20
CalStep == 70

\* The raw counts frames are drawn from: one below the band, the two ends
\* of the band, one above it.
Raws == {CalLo - 1, CalLo, CalHi, CalHi + 1}

\* The pixel positions <<x, y>> of a full frame.
Pixels == (0 .. FrameW - 1) \X (0 .. FrameH - 1)

\* The frame that reads v at the positions in S and b elsewhere.
Painted(b, v, S) ==
    [y \in 1 .. FrameH |->
        [x \in 1 .. FrameW |-> IF <<x - 1, y - 1>> \in S THEN v ELSE b]]

\* The frames a caller passes: a uniform background with at most MaxSpots
\* pixels of another value, and the zero-size array.
MaxSpots == 1
Frames ==
    {Painted(b, v, S) :
        b \in Raws, v \in Raws,
        S \in {T \in SUBSET Pixels : Cardinality(T) <= MaxSpots}}
    \cup {EmptyArray}

SampleFrame == Painted(CalLo, CalHi, {<<0, 0>>})

\* No capture_frame() call is under way on a second thread.
CapIdle ==
    [pc |-> "idle", s |-> 0, temp_frame |-> EmptyFrame,
     image_frame |-> EmptyFrame, res |-> "none",
     temp |-> None, image |-> None, cancelled |-> FALSE]

Constructed ==
    /\ cap = CapIdle
    /\ initialized = [s \in Sessions |-> FALSE]
    /\ nat = [s \in Cams |-> "closed"]
    /\ tslot = EmptyFrame
    /\ islot = EmptyFrame
    /\ demoPc = "start"
    /\ last = [s |-> 0, op |-> "init",
               pre |-> "Closed", preNat |-> "closed",
               preT |-> EmptyFrame, preI |-> EmptyFrame,
               res |-> "none", calls |-> <<>>,
               avail |-> FALSE, busy |-> FALSE,
               wait |-> FALSE, slept |-> FALSE,
               temp |-> None, image |-> None,
               args |-> <<>>, val |-> <<>>,
               before |-> [s |-> 0, op |-> "init"]]

\* Sessions constructed, and one captured frame in the caller's hands.
\* No program of its own is under way: calls come one at a time from any
\* caller, the search path is empty and no installer runs.
NoProg == [pc |-> "none"]
NoEnv == <<>>
NoInst == [pc |-> "none"]
Idle == prog = NoProg /\ env = NoEnv /\ inst = NoInst

Init == Constructed /\ Idle /\ frame = SampleFrame

\* Sessions constructed, and any frame of the family in the caller's hands.
InitQuery == Constructed /\ Idle /\ frame \in Frames

\* ------------------------------------------------ wrapper operations
\* open() without its "already initialized" early return: the native open
\* runs again on a live session.
OpenReinit(s) ==
    \E avail \in BOOLEAN :
        LET r == NativeOpen(nat[s], avail, DeviceBusy(s)) IN
        /\ nat' = [nat EXCEPT ![s] = r.state]
        /\ initialized' = [initialized EXCEPT ![s] = initialized[s] \/ r.ret]
        /\ last' = [Call(s, "open") EXCEPT
                       !.res = IF r.ret THEN "true" ELSE "false",
                       !.calls = <<"open">>,
                       !.avail = avail, !.busy = DeviceBusy(s)]
        /\ UNCHANGED <<tslot, islot, demoPc, cap, frame, env, inst>>

\* open() that also starts the stream once the native open succeeded.
OpenAutoStream(s) ==
    \E avail \in BOOLEAN :
        IF initialized[s]
        THEN /\ last' = [Call(s, "open") EXCEPT !.res = "true", !.avail = avail,
                                                !.busy = DeviceBusy(s)]
             /\ UNCHANGED <<initialized, nat, tslot, islot, demoPc, cap, frame, env, inst>>
        ELSE LET r == NativeOpen(nat[s], avail, DeviceBusy(s))
                 r2 == NativeStartStream(r.state, TRUE)
             IN
             /\ nat' = [nat EXCEPT ![s] = IF r.ret THEN r2.state ELSE r.state]
             /\ initialized' = [initialized EXCEPT ![s] = r.ret]
             /\ last' = [Call(s, "open") EXCEPT
                            !.res = IF r.ret THEN "true" ELSE "false",
                            !.calls = IF r.ret THEN <<"open", "start_stream">>
                                      ELSE <<"open">>,
                            !.avail = avail, !.busy = DeviceBusy(s)]
             /\ UNCHANGED <<tslot, islot, demoPc, cap, frame, env, inst>>

\* open() that ignores what the native open returned.
OpenIgnoresResult(s) ==
    \E avail \in BOOLEAN :
        IF initialized[s]
        THEN /\ last' = [Call(s, "open") EXCEPT !.res = "true", !.avail = avail,
                                                !.busy = DeviceBusy(s)]
             /\ UNCHANGED <<initialized, nat, tslot, islot, demoPc, cap, frame, env, inst>>
        ELSE LET r == NativeOpen(nat[s], avail, DeviceBusy(s)) IN
             /\ nat' = [nat EXCEPT ![s] = r.state]
             /\ initialized' = [initialized EXCEPT ![s] = TRUE]
             /\ last' = [Call(s, "open") EXCEPT
                            !.res = "true",
                            !.calls = <<"open">>,
                            !.avail = avail, !.busy = DeviceBusy(s)]
             /\ UNCHANGED <<tslot, islot, demoPc, cap, frame, env, inst>>

\* open() that sets _is_initialized before the native open and does not
\* take it back when the native open fails.
OpenMarksBeforeNative(s) ==
    \E avail \in BOOLEAN :
        IF initialized[s]
        THEN /\ last' = [Call(s, "open") EXCEPT !.res = "true", !.avail = avail,
                                                !.busy = DeviceBusy(s)]
             /\ UNCHANGED <<initialized, nat, tslot, islot, demoPc, cap, frame, env, inst>>
        ELSE LET r == NativeOpen(nat[s], avail, DeviceBusy(s)) IN
             /\ nat' = [nat EXCEPT ![s] = r.state]
             /\ initialized' = [initialized EXCEPT ![s] = TRUE]
             /\ last' = [Call(s, "open") EXCEPT
                            !.res = IF r.ret THEN "true" ELSE "false",
                            !.calls = <<"open">>,
                            !.avail = avail, !.busy = DeviceBusy(s)]
             /\ UNCHANGED <<tslot, islot, demoPc, cap, frame, env, inst>>

\* TinyThermalCamera.open
Open(s) ==
    \E avail \in BOOLEAN :
        IF initialized[s]
        THEN /\ last' = [Call(s, "open") EXCEPT !.res = "true", !.avail = avail,
                                                !.busy = DeviceBusy(s)]
             /\ UNCHANGED <<initialized, nat, tslot, islot, demoPc, cap, frame, env, inst>>
        ELSE LET r == NativeOpen(nat[s], avail, DeviceBusy(s)) IN
             /\ nat' = [nat EXCEPT ![s] = r.state]
             /\ initialized' = [initialized EXCEPT ![s] = r.ret]
             /\ last' = [Call(s, "open") EXCEPT
                            !.res = IF r.ret THEN "true" ELSE "false",
                            !.calls = <<"open">>,
                            !.avail = avail, !.busy = DeviceBusy(s)]
             /\ UNCHANGED <<tslot, islot, demoPc, cap, frame, env, inst>>

\* close() that closes the native session without stopping the stream.
CloseNoStop(s) ==
    IF initialized[s]
    THEN /\ nat' = [nat EXCEPT ![s] = NativeClose(nat[s]).state]
         /\ initialized' = [initialized EXCEPT ![s] = FALSE]
         /\ last' = [Call(s, "close") EXCEPT !.calls = <<"close">>]
         /\ UNCHANGED <<tslot, islot, demoPc, cap, frame, env, inst>>
    ELSE /\ last' = Call(s, "close")
         /\ UNCHANGED <<initialized, nat, tslot, islot, demoPc, cap, frame, env, inst>>

\* close() without its "if self._is_initialized" test.
CloseUnguarded(s) ==
    LET streaming == NativeIsStreaming(nat[s])
        n1 == IF streaming THEN NativeStopStream(nat[s]).state ELSE nat[s]
        n2 == NativeClose(n1).state
    IN  /\ nat' = [nat EXCEPT ![s] = n2]
        /\ initialized' = [initialized EXCEPT ![s] = FALSE]
        /\ last' = [Call(s, "close") EXCEPT
                       !.calls = IF streaming
                                 THEN <<"is_streaming", "stop_stream", "close">>
                                 ELSE <<"is_streaming", "close">>]
        /\ UNCHANGED <<tslot, islot, demoPc, cap, frame, env, inst>>

\* close() that only clears the wrapper's flag and leaves the native
\* session as it is.
CloseFlagOnly(s) ==
    /\ initialized' = [initialized EXCEPT ![s] = FALSE]
    /\ last' = Call(s, "close")
    /\ UNCHANGED <<nat, tslot, islot, demoPc, cap, frame, env, inst>>

\* TinyThermalCamera.close
Close(s) ==
    IF initialized[s]
    THEN LET streaming == NativeIsStreaming(nat[s])
             n1 == IF streaming THEN NativeStopStream(nat[s]).state ELSE nat[s]
             n2 == NativeClose(n1).state
         IN  /\ nat' = [nat EXCEPT ![s] = n2]
             /\ initialized' = [initialized EXCEPT ![s] = FALSE]
             /\ last' = [Call(s, "close") EXCEPT
                            !.calls = IF streaming
                                      THEN <<"is_streaming", "stop_stream", "close">>
                                      ELSE <<"is_streaming", "close">>]
             /\ UNCHANGED <<tslot, islot, demoPc, cap, frame, env, inst>>
    ELSE /\ last' = Call(s, "close")
         /\ UNCHANGED <<initialized, nat, tslot, islot, demoPc, cap, frame, env, inst>>

\* start_streaming() without its "not initialized" test.
StartStreamingUnguarded(s) ==
    \E wait \in BOOLEAN, hwok \in BOOLEAN :
        LET r == NativeStartStream(nat[s], hwok) IN
        /\ nat' = [nat EXCEPT ![s] = r.state]
        /\ last' = [Call(s, "start_streaming") EXCEPT
                       !.res = IF r.ret THEN "true" ELSE "false",
                       !.calls = <<"start_stream">>,
                       !.wait = wait,
                       !.slept = r.ret /\ wait]
        /\ UNCHANGED <<initialized, tslot, islot, demoPc, cap, frame, env, inst>>

\* start_streaming() that sleeps after a successful start whatever
\* wait_for_stabilization says.
StartStreamingAlwaysSleeps(s) ==
    \E wait \in BOOLEAN, hwok \in BOOLEAN :
        IF ~initialized[s]
        THEN /\ last' = [Call(s, "start_streaming") EXCEPT
                            !.res = "raise", !.wait = wait]
             /\ UNCHANGED <<initialized, nat, tslot, islot, demoPc, cap, frame, env, inst>>
        ELSE LET r == NativeStartStream(nat[s], hwok) IN
             /\ nat' = [nat EXCEPT ![s] = r.state]
             /\ last' = [Call(s, "start_streaming") EXCEPT
                            !.res = IF r.ret THEN "true" ELSE "false",
                            !.calls = <<"start_stream">>,
                            !.wait = wait,
                            !.slept = r.ret]
             /\ UNCHANGED <<initialized, tslot, islot, demoPc, cap, frame, env, inst>>

\* TinyThermalCamera.start_streaming
StartStreaming(s) ==
    \E wait \in BOOLEAN, hwok \in BOOLEAN :
        IF ~initialized[s]
        THEN /\ last' = [Call(s, "start_streaming") EXCEPT
                            !.res = "raise", !.wait = wait]
             /\ UNCHANGED <<initialized, nat, tslot, islot, demoPc, cap, frame, env, inst>>
        ELSE LET r == NativeStartStream(nat[s], hwok) IN
             /\ nat' = [nat EXCEPT ![s] = r.state]
             /\ last' = [Call(s, "start_streaming") EXCEPT
                            !.res = IF r.ret THEN "true" ELSE "false",
                            !.calls = <<"start_stream">>,
                            !.wait = wait,
                            !.slept = r.ret /\ wait]
             /\ UNCHANGED <<initialized, tslot, islot, demoPc, cap, frame, env, inst>>

\* stop_streaming() that tears the whole session down.
StopStreamingCloses(s) ==
    LET r == NativeStopStream(nat[s]) IN
    /\ nat' = [nat EXCEPT ![s] = NativeClose(r.state).state]
    /\ initialized' = [initialized EXCEPT ![s] = FALSE]
    /\ last' = [Call(s, "stop_streaming") EXCEPT
                   !.res = IF r.ret THEN "true" ELSE "false",
                   !.calls = <<"stop_stream", "close">>]
    /\ UNCHANGED <<tslot, islot, demoPc, cap, frame, env, inst>>

\* stop_streaming() that clears _is_initialized and leaves the native
\* camera open.
StopStreamingClearsFlag(s) ==
    LET r == NativeStopStream(nat[s]) IN
    /\ nat' = [nat EXCEPT ![s] = r.state]
    /\ initialized' = [initialized EXCEPT ![s] = FALSE]
    /\ last' = [Call(s, "stop_streaming") EXCEPT
                   !.res = IF r.ret THEN "true" ELSE "false",
                   !.calls = <<"stop_stream">>]
    /\ UNCHANGED <<tslot, islot, demoPc, cap, frame, env, inst>>

\* TinyThermalCamera.stop_streaming
StopStreaming(s) ==
    LET r == NativeStopStream(nat[s]) IN
    /\ nat' = [nat EXCEPT ![s] = r.state]
    /\ last' = [Call(s, "stop_streaming") EXCEPT
                   !.res = IF r.ret THEN "true" ELSE "false",
                   !.calls = <<"stop_stream">>]
    /\ UNCHANGED <<initialized, tslot, islot, demoPc, cap, frame, env, inst>>

\* TinyThermalCamera.get_camera_info
GetCameraInfo(s) ==
    /\ last' = [Call(s, "get_camera_info") EXCEPT
                   !.res = NativeGetCameraInfo(nat[s]),
                   !.calls = <<"get_camera_info">>]
    /\ UNCHANGED <<initialized, nat, tslot, islot, demoPc, cap, frame, prog, env, inst>>

\* capture_frame() that waits until the driver has a temperature frame.
CaptureFrameBlocking(s) ==
    IF ~NativeIsStreaming(nat[s])
    THEN /\ last' = [Call(s, "capture_frame") EXCEPT
                        !.res = "raise", !.calls = <<"is_streaming">>]
         /\ UNCHANGED <<initialized, nat, tslot, islot, demoPc, cap, frame, env, inst>>
    ELSE /\ tslot # EmptyFrame
         /\ last' = [Call(s, "capture_frame") EXCEPT
                        !.res = "frames",
                        !.calls = <<"is_streaming", "get_temperature_frame",
                                    "get_image_frame">>,
                        !.temp = tslot,
                        !.image = IF FrameSize(islot) > 0 THEN islot ELSE None]
         /\ UNCHANGED <<initialized, nat, tslot, islot, demoPc, cap, frame, env, inst>>

\* TinyThermalCamera.capture_frame
CaptureFrame(s) ==
    IF ~NativeIsStreaming(nat[s])
    THEN /\ last' = [Call(s, "capture_frame") EXCEPT
                        !.res = "raise", !.calls = <<"is_streaming">>]
         /\ UNCHANGED <<initialized, nat, tslot, islot, demoPc, cap, frame, env, inst>>
    ELSE LET temp_frame == NativeGetTemperatureFrame(nat[s], tslot)
             image_frame == NativeGetImageFrame(nat[s], islot)
         IN  /\ last' = [Call(s, "capture_frame") EXCEPT
                            !.res = "frames",
                            !.calls = <<"is_streaming", "get_temperature_frame",
                                        "get_image_frame">>,
                            !.temp = IF FrameSize(temp_frame) > 0
                                     THEN temp_frame ELSE None,
                            !.image = IF FrameSize(image_frame) > 0
                                      THEN image_frame ELSE None]
             /\ UNCHANGED <<initialized, nat, tslot, islot, demoPc, cap, frame, env, inst>>

\* --------------------------------------------- ThermalCameraDemo.run_demo
\* ThermalCameraDemo.initialize_camera; on failure run_demo returns through
\* its finally block.
DemoInitializeCamera ==
    /\ demoPc = "start"
    /\ \E avail \in BOOLEAN :
         LET r == NativeOpen(nat[DemoCam], avail, DeviceBusy(DemoCam)) IN
         /\ nat' = [nat EXCEPT ![DemoCam] = r.state]
         /\ demoPc' = IF r.ret THEN "opened" ELSE "cleanup"
         /\ last' = [Call(DemoCam, "demo_initialize_camera") EXCEPT
                        !.res = IF r.ret THEN "true" ELSE "false",
                        !.calls = IF r.ret THEN <<"open", "get_camera_info">>
                                  ELSE <<"open">>,
                        !.avail = avail, !.busy = DeviceBusy(DemoCam)]
    /\ UNCHANGED <<initialized, tslot, islot, cap, frame, prog, env, inst>>

\* ThermalCameraDemo.start_streaming: the demo, a caller of the native
\* layer, sleeps 5 seconds itself after a successful start.
DemoStartStreaming ==
    /\ demoPc = "opened"
    /\ \E hwok \in BOOLEAN :
         LET r == NativeStartStream(nat[DemoCam], hwok) IN
         /\ nat' = [nat EXCEPT ![DemoCam] = r.state]
         /\ demoPc' = IF r.ret THEN "streaming" ELSE "cleanup"
         /\ last' = [Call(DemoCam, "demo_start_streaming") EXCEPT
                        !.res = IF r.ret THEN "true" ELSE "false",
                        !.calls = <<"start_stream">>,
                        !.wait = TRUE, !.slept = r.ret]
    /\ UNCHANGED <<initialized, tslot, islot, cap, frame, prog, env, inst>>

\* ThermalCameraDemo.capture_single_frame and the rest of run_demo's try
\* block up to the monitoring prompt.  With an empty frame the method
\* returns None, the caller's tuple unpacking raises, and run_demo leaves
\* through except/finally.
DemoCaptureSingleFrame ==
    /\ demoPc = "streaming"
    /\ LET temp_frame == NativeGetTemperatureFrame(nat[DemoCam], tslot)
           image_frame == NativeGetImageFrame(nat[DemoCam], islot)
       IN  IF FrameSize(temp_frame) = 0
           THEN /\ demoPc' = "cleanup"
                /\ last' = [Call(DemoCam, "demo_capture_single_frame") EXCEPT
                               !.res = "raise",
                               !.calls = <<"get_temperature_frame">>]
           ELSE \E monitor \in BOOLEAN :
                /\ demoPc' = IF monitor THEN "monitor" ELSE "cleanup"
                /\ last' = [Call(DemoCam, "demo_capture_single_frame") EXCEPT
                               !.res = "frames",
                               !.calls = <<"get_temperature_frame",
                                           "get_image_frame">>,
                               !.temp = temp_frame,
                               !.image = image_frame]
    /\ UNCHANGED <<initialized, nat, tslot, islot, cap, frame, prog, env, inst>>

\* One pass of the loop of ThermalCameraDemo.continuous_monitoring: the
\* loop ends when the duration is over; otherwise one frame is asked for
\* and, when none is ready, the demo sleeps 0.1 s and asks again.
DemoContinuousMonitoring ==
    /\ demoPc = "monitor"
    /\ \E timeup \in BOOLEAN :
         IF timeup
         THEN /\ demoPc' = "cleanup"
              /\ last' = [Call(DemoCam, "demo_monitor_end") EXCEPT
                             !.res = "true"]
         ELSE LET temp_frame == NativeGetTemperatureFrame(nat[DemoCam], tslot) IN
              /\ demoPc' = "monitor"
              /\ last' = [Call(DemoCam, "demo_monitor_poll") EXCEPT
                             !.res = IF FrameSize(temp_frame) = 0
                                     THEN "empty" ELSE "frames",
                             !.calls = <<"get_temperature_frame">>,
                             !.temp = temp_frame,
                             !.slept = TRUE]
    /\ UNCHANGED <<initialized, nat, tslot, islot, cap, frame, prog, env, inst>>

\* The finally block of ThermalCameraDemo.run_demo.
DemoCleanup ==
    /\ demoPc = "cleanup"
    /\ LET streaming == NativeIsStreaming(nat[DemoCam])
           n1 == IF streaming THEN NativeStopStream(nat[DemoCam]).state
                 ELSE nat[DemoCam]
           open == NativeIsOpen(n1)
           n2 == IF open THEN NativeClose(n1).state ELSE n1
       IN  /\ nat' = [nat EXCEPT ![DemoCam] = n2]
           /\ last' = [Call(DemoCam, "demo_cleanup") EXCEPT
                          !.calls = (IF streaming
                                     THEN <<"is_streaming", "stop_stream", "is_open">>
                                     ELSE <<"is_streaming", "is_open">>)
                                    \o (IF open THEN <<"close">> ELSE <<>>)]
    /\ demoPc' = "done"
    /\ UNCHANGED <<initialized, tslot, islot, cap, frame, prog, env, inst>>

\* ------------------------------------------------------- environment
\* The device delivers a new temperature frame, with or without a
\* visible-light companion, into the driver's latest-frame slot.
FrameArrives ==
    /\ \E s \in Cams : nat[s] = "streaming"
    /\ \E f \in FrameIds \ {tslot}, hasImage \in BOOLEAN :
         /\ tslot' = f
         /\ islot' = IF hasImage THEN f ELSE EmptyFrame
    /\ UNCHANGED <<initialized, nat, demoPc, last, cap, frame, prog, env, inst>>

\* The slot is between transfers: nothing is ready.
SlotDrains ==
    /\ tslot # EmptyFrame
    /\ tslot' = EmptyFrame
    /\ islot' = EmptyFrame
    /\ UNCHANGED <<initialized, nat, demoPc, last, cap, frame, prog, env, inst>>

Next ==
    \/ \E s \in Sessions : Open(s) /\ UNCHANGED prog
    \/ \E s \in Sessions : Close(s) /\ UNCHANGED prog
    \/ \E s \in Sessions : StartStreaming(s) /\ UNCHANGED prog
    \/ \E s \in Sessions : StopStreaming(s) /\ UNCHANGED prog
    \/ \E s \in Sessions : GetCameraInfo(s)
    \/ \E s \in Sessions : CaptureFrame(s) /\ UNCHANGED prog
    \/ DemoInitializeCamera
    \/ DemoStartStreaming
    \/ DemoCaptureSingleFrame
    \/ DemoContinuousMonitoring
    \/ DemoCleanup
    \/ FrameArrives
    \/ SlotDrains

Spec == Init /\ [][Next]_vars

\* ------------------------------- capture_frame() on a second thread
\* The statements of TinyThermalCamera.capture_frame, one native call at a
\* time, so that calls made by another thread fall between them.  Another
\* thread's close() is taken as one step: capture_frame reads the native
\* object only, and the native states close() passes through are those
\* left by stop_streaming() followed by close().
\*
\* Line 148-149: the streaming test.
CaptureCheck(s) ==
    /\ cap.pc = "idle"
    /\ cap' = IF ~NativeIsStreaming(nat[s])
              THEN [CapIdle EXCEPT !.s = s, !.res = "raise"]
              ELSE [CapIdle EXCEPT !.s = s, !.pc = "checked"]
    /\ UNCHANGED <<initialized, nat, tslot, islot, demoPc, last, frame, prog, env, inst>>

\* Line 151 with a test of its own that raises once the stream is gone.
CaptureReadTempStrict ==
    /\ cap.pc = "checked"
    /\ cap' = IF ~NativeIsStreaming(nat[cap.s])
              THEN [cap EXCEPT !.pc = "idle", !.res = "raise",
                               !.cancelled = TRUE]
              ELSE [cap EXCEPT !.pc = "temp_read",
                               !.temp_frame =
                                   NativeGetTemperatureFrame(nat[cap.s], tslot)]
    /\ UNCHANGED <<initialized, nat, tslot, islot, demoPc, last, frame, prog, env, inst>>

\* Line 151: temp_frame = self._camera.get_temperature_frame()
CaptureReadTemp ==
    /\ cap.pc = "checked"
    /\ cap' = [cap EXCEPT
                  !.pc = "temp_read",
                  !.temp_frame = NativeGetTemperatureFrame(nat[cap.s], tslot),
                  !.cancelled = cap.cancelled \/ ~NativeIsStreaming(nat[cap.s])]
    /\ UNCHANGED <<initialized, nat, tslot, islot, demoPc, last, frame, prog, env, inst>>

\* Line 152: image_frame = self._camera.get_image_frame()
CaptureReadImage ==
    /\ cap.pc = "temp_read"
    /\ cap' = [cap EXCEPT
                  !.pc = "image_read",
                  !.image_frame = NativeGetImageFrame(nat[cap.s], islot),
                  !.cancelled = cap.cancelled \/ ~NativeIsStreaming(nat[cap.s])]
    /\ UNCHANGED <<initialized, nat, tslot, islot, demoPc, last, frame, prog, env, inst>>

\* Lines 154-157: the zero-size arrays become None and the pair is returned.
CaptureReturn ==
    /\ cap.pc = "image_read"
    /\ cap' = [cap EXCEPT
                  !.pc = "idle", !.res = "frames",
                  !.temp = IF FrameSize(cap.temp_frame) > 0
                           THEN cap.temp_frame ELSE None,
                  !.image = IF FrameSize(cap.image_frame) > 0
                            THEN cap.image_frame ELSE None]
    /\ UNCHANGED <<initialized, nat, tslot, islot, demoPc, last, frame, prog, env, inst>>

\* The camera object the two threads share.
FirstSession == {s \in Sessions : \A t \in Sessions : s <= t}

\* One thread runs capture_frame(); the other calls open(), close(),
\* start_streaming() and stop_streaming(); the device delivers frames.
NextConc ==
    \/ \E s \in FirstSession : CaptureCheck(s)
    \/ CaptureReadTemp
    \/ CaptureReadImage
    \/ CaptureReturn
    \/ \E s \in FirstSession : Open(s) /\ UNCHANGED prog
    \/ \E s \in FirstSession : Close(s) /\ UNCHANGED prog
    \/ \E s \in FirstSession : StartStreaming(s) /\ UNCHANGED prog
    \/ \E s \in FirstSession : StopStreaming(s) /\ UNCHANGED prog
    \/ FrameArrives
    \/ SlotDrains

SpecConc == Init /\ [][NextConc]_vars

\* ------------------------------------------------- spatial queries
\* tiny_thermal_camera.temp_to_celsius(raw): the calibration of one raw
\* count; counts outside the calibrated band read as the nearest end of it.
TempToCelsius(raw) ==
    LET clamped == IF raw < CalLo THEN CalLo
                   ELSE IF raw > CalHi THEN CalHi ELSE raw
    IN  CalBase + CalStep * (clamped - CalLo)

InBounds(a, x, y) == 0 <= x /\ x < Width(a) /\ 0 <= y /\ y < Height(a)

CelsiusAt(a, x, y) == TempToCelsius(a[y + 1][x + 1])

RECURSIVE SumOver(_, _)
SumOver(a, P) ==
    IF P = {} THEN 0
    ELSE LET p == CHOOSE q \in P : TRUE
         IN  CelsiusAt(a, p[1], p[2]) + SumOver(a, P \ {p})

\* (max, min, avg) over the pixels P of frame a; avg is the exact quotient
\* <<sum, count>> of the unweighted mean.
RegionStats(a, P) ==
    <<CHOOSE m \in {CelsiusAt(a, p[1], p[2]) : p \in P} :
          \A p \in P : CelsiusAt(a, p[1], p[2]) <= m,
      CHOOSE m \in {CelsiusAt(a, p[1], p[2]) : p \in P} :
          \A p \in P : m <= CelsiusAt(a, p[1], p[2]),
      <<SumOver(a, P), Cardinality(P)>>>>

\* What a failed native query leaves in its output slots.
NoStats == <<0, 0, <<0, 0>>>>

\* TemperatureProcessor.get_point_temp(frame, x, y) -> (success, temp).
NativeGetPointTemp(a, x, y) ==
    IF InBounds(a, x, y) THEN <<TRUE, CelsiusAt(a, x, y)>> ELSE <<FALSE, 0>>

RectPixels(x, y, w, h) == (x .. x + w - 1) \X (y .. y + h - 1)

\* TemperatureProcessor.get_rect_temp(frame, x, y, w, h)
\*     -> (success, max, min, avg).
NativeGetRectTemp(a, x, y, w, h) ==
    IF w > 0 /\ h > 0 /\ 0 <= x /\ 0 <= y
          /\ x + w <= Width(a) /\ y + h <= Height(a)
    THEN <<TRUE>> \o RegionStats(a, RectPixels(x, y, w, h))
    ELSE <<FALSE>> \o NoStats

Abs(n) == IF n < 0 THEN -n ELSE n
Sign(n) == IF n < 0 THEN -1 ELSE IF n > 0 THEN 1 ELSE 0

\* The integer rasterization of the segment from (x, y) to (x2, y2):
\* Bresenham's rule with error term err, dx = |x2 - x1|, dy = -|y2 - y1|.
RECURSIVE Bresenham(_, _, _, _, _, _, _)
Bresenham(x, y, x2, y2, dx, dy, err) ==
    IF x = x2 /\ y = y2 THEN {<<x, y>>}
    ELSE LET stepX == 2 * err >= dy
             stepY == 2 * err <= dx
         IN  {<<x, y>>} \cup
             Bresenham(IF stepX THEN x + Sign(x2 - x) ELSE x,
                       IF stepY THEN y + Sign(y2 - y) ELSE y,
                       x2, y2, dx, dy,
                       err + (IF stepX THEN dy ELSE 0)
                           + (IF stepY THEN dx ELSE 0))

LinePixels(x1, y1, x2, y2) ==
    Bresenham(x1, y1, x2, y2, Abs(x2 - x1), -Abs(y2 - y1),
              Abs(x2 - x1) - Abs(y2 - y1))

\* TemperatureProcessor.get_line_temp(frame, x1, y1, x2, y2)
\*     -> (success, max, min, avg).
NativeGetLineTemp(a, x1, y1, x2, y2) ==
    IF InBounds(a, x1, y1) /\ InBounds(a, x2, y2)
    THEN <<TRUE>> \o RegionStats(a, LinePixels(x1, y1, x2, y2))
    ELSE <<FALSE>> \o NoStats

\* What a wrapper query hands back: a payload, Python's None, or an
\* exception.
Value(v) == [res |-> "value", val |-> v]
PyNone == [res |-> "none", val |-> <<>>]
Raised == [res |-> "raise", val |-> <<>>]

\* get_temperature_celsius() that hands back the converted values as one
\* flat row.
GetTemperatureCelsiusFlattened(temp_frame) ==
    IF Size(temp_frame) = 0 THEN Raised
    ELSE Value(<<[i \in 1 .. Size(temp_frame) |->
                    TempToCelsius(
                        temp_frame[((i - 1) \div Width(temp_frame)) + 1]
                                  [((i - 1) % Width(temp_frame)) + 1])]>>)

\* get_temperature_celsius(): numpy.vectorize applies temp_to_celsius to
\* every element and keeps the shape; on a zero-size input it raises
\* ValueError.
GetTemperatureCelsius(temp_frame) ==
    IF Size(temp_frame) = 0 THEN Raised
    ELSE Value([y \in 1 .. Height(temp_frame) |->
                   [x \in 1 .. Width(temp_frame) |->
                       TempToCelsius(temp_frame[y][x])]])

\* get_point_temperature() that hands back the slot whatever the flag says.
GetPointTemperatureLeaks(temp_frame, x, y) ==
    LET r == NativeGetPointTemp(temp_frame, x, y)
    IN  Value(<<r[2]>>)

\* get_point_temperature() that passes the coordinates as (row, column).
GetPointTemperatureTransposed(temp_frame, x, y) ==
    LET r == NativeGetPointTemp(temp_frame, y, x)
    IN  IF r[1] THEN Value(<<r[2]>>) ELSE PyNone

\* get_point_temperature(): temp if success else None.
GetPointTemperature(temp_frame, x, y) ==
    LET r == NativeGetPointTemp(temp_frame, x, y)
    IN  IF r[1] THEN Value(<<r[2]>>) ELSE PyNone

\* get_area_temperature() that hands back (min, max, avg).
GetAreaTemperatureReordered(temp_frame, x, y, width, height) ==
    LET r == NativeGetRectTemp(temp_frame, x, y, width, height)
    IN  IF r[1] THEN Value(<<r[3], r[2], r[4]>>) ELSE PyNone

\* get_area_temperature() that passes the corner as (row, column).
GetAreaTemperatureTransposed(temp_frame, x, y, width, height) ==
    LET r == NativeGetRectTemp(temp_frame, y, x, width, height)
    IN  IF r[1] THEN Value(<<r[2], r[3], r[4]>>) ELSE PyNone

\* get_area_temperature() that passes the extent as (height, width).
GetAreaTemperatureSwapsExtent(temp_frame, x, y, width, height) ==
    LET r == NativeGetRectTemp(temp_frame, x, y, height, width)
    IN  IF r[1] THEN Value(<<r[2], r[3], r[4]>>) ELSE PyNone

\* get_area_temperature(): (max, min, avg) if success else None.
GetAreaTemperature(temp_frame, x, y, width, height) ==
    LET r == NativeGetRectTemp(temp_frame, x, y, width, height)
    IN  IF r[1] THEN Value(<<r[2], r[3], r[4]>>) ELSE PyNone

\* get_line_temperature() that passes the endpoints as (x1, x2, y1, y2).
GetLineTemperatureMixed(temp_frame, x1, y1, x2, y2) ==
    LET r == NativeGetLineTemp(temp_frame, x1, x2, y1, y2)
    IN  IF r[1] THEN Value(<<r[2], r[3], r[4]>>) ELSE PyNone

\* get_line_temperature(): (max, min, avg) if success else None.
GetLineTemperature(temp_frame, x1, y1, x2, y2) ==
    LET r == NativeGetLineTemp(temp_frame, x1, y1, x2, y2)
    IN  IF r[1] THEN Value(<<r[2], r[3], r[4]>>) ELSE PyNone

\* numpy's flattening of a 2-D array: row after row.
Ravel(c) ==
    [i \in 1 .. Size(c) |->
        c[((i - 1) \div Width(c)) + 1][((i - 1) % Width(c)) + 1]]

\* numpy.argmax / numpy.argmin of a flat array: the 0-based index of the
\* first occurrence of the extreme value.
ArgMax(v) ==
    (CHOOSE i \in 1 .. Len(v) :
        /\ \A j \in 1 .. Len(v) : v[j] <= v[i]
        /\ \A j \in 1 .. i - 1 : v[j] < v[i]) - 1
ArgMin(v) ==
    (CHOOSE i \in 1 .. Len(v) :
        /\ \A j \in 1 .. Len(v) : v[j] >= v[i]
        /\ \A j \in 1 .. i - 1 : v[j] > v[i]) - 1

\* numpy.unravel_index(i, (height, width)) -> (row, column).
UnravelIndex(i, c) == <<i \div Width(c), i % Width(c)>>

\* find_hotspot() that unpacks the index as x, y = max_idx.
FindHotspotTransposed(temp_frame) ==
    LET temp_celsius == GetTemperatureCelsius(temp_frame)
    IN  IF temp_celsius.res = "raise" THEN Raised
        ELSE LET c == temp_celsius.val
                 max_idx == UnravelIndex(ArgMax(Ravel(c)), c)
                 x == max_idx[1]
                 y == max_idx[2]
             IN  Value(<<<<x, y>>, c[max_idx[1] + 1][max_idx[2] + 1]>>)

\* find_hotspot(): ((x, y), max_temp) with y, x = max_idx.
FindHotspot(temp_frame) ==
    LET temp_celsius == GetTemperatureCelsius(temp_frame)
    IN  IF temp_celsius.res = "raise" THEN Raised
        ELSE LET c == temp_celsius.val
                 max_idx == UnravelIndex(ArgMax(Ravel(c)), c)
                 y == max_idx[1]
                 x == max_idx[2]
             IN  Value(<<<<x, y>>, c[max_idx[1] + 1][max_idx[2] + 1]>>)

\* find_coldspot(): ((x, y), min_temp) with y, x = min_idx.
FindColdspot(temp_frame) ==
    LET temp_celsius == GetTemperatureCelsius(temp_frame)
    IN  IF temp_celsius.res = "raise" THEN Raised
        ELSE LET c == temp_celsius.val
                 min_idx == UnravelIndex(ArgMin(Ravel(c)), c)
                 y == min_idx[1]
                 x == min_idx[2]
             IN  Value(<<<<x, y>>, c[min_idx[1] + 1][min_idx[2] + 1]>>)

RECURSIVE SeqSum(_)
SeqSum(v) == IF v = <<>> THEN 0 ELSE Head(v) + SeqSum(Tail(v))

\* The k-th smallest element of a flat array, as sorting finds it.
KthSmallest(v, k) ==
    CHOOSE m \in {v[i] : i \in 1 .. Len(v)} :
        /\ Cardinality({i \in 1 .. Len(v) : v[i] < m}) < k
        /\ Cardinality({i \in 1 .. Len(v) : v[i] <= m}) >= k

\* The record get_temperature_stats() builds from a Celsius matrix c, with
\* numpy's reductions: mean and median are exact quotients <<numerator,
\* denominator>>, and std is carried as its square, the population
\* variance, again an exact quotient.
StatsRecord(c, lo, hi) ==
    LET v == Ravel(c)
        n == Len(v)
    IN  [min |-> lo, max |-> hi,
         mean |-> <<SeqSum(v), n>>,
         median |-> <<KthSmallest(v, (n + 1) \div 2)
                          + KthSmallest(v, (n \div 2) + 1), 2>>,
         std |-> <<n * SeqSum([i \in 1 .. n |-> v[i] * v[i]])
                       - SeqSum(v) * SeqSum(v), n * n>>,
         range |-> hi - lo]

\* get_temperature_stats() that fills 'min' from np.max and 'max' from
\* np.min.
GetTemperatureStatsSwapped(temp_frame) ==
    LET temp_celsius == GetTemperatureCelsius(temp_frame)
    IN  IF temp_celsius.res = "raise" THEN Raised
        ELSE LET v == Ravel(temp_celsius.val)
             IN  Value(StatsRecord(temp_celsius.val,
                                   v[ArgMax(v) + 1], v[ArgMin(v) + 1]))

\* get_temperature_stats(): min, max, mean, median, std and range of the
\* Celsius matrix.
GetTemperatureStats(temp_frame) ==
    LET temp_celsius == GetTemperatureCelsius(temp_frame)
    IN  IF temp_celsius.res = "raise" THEN Raised
        ELSE LET v == Ravel(temp_celsius.val)
             IN  Value(StatsRecord(temp_celsius.val,
                                   v[ArgMin(v) + 1], v[ArgMax(v) + 1]))

\* The coordinates and extents a caller passes: every in-frame value and
\* one step outside on either side.
QueryXs == -1 .. FrameW
QueryYs == -1 .. FrameH

\* A query call on session s with arguments args and outcome r.
Queried(s, op, args, r) ==
    /\ last' = [Call(s, op) EXCEPT !.args = args, !.res = r.res,
                                   !.val = r.val]
    /\ UNCHANGED <<initialized, nat, tslot, islot, demoPc, cap, frame, prog, env, inst>>

PointQuery(s) ==
    \E x \in QueryXs, y \in QueryYs :
        Queried(s, "get_point_temperature", <<x, y>>,
                GetPointTemperature(frame, x, y))

AreaQuery(s) ==
    \E x \in QueryXs, y \in QueryYs, width \in QueryXs, height \in QueryYs :
        Queried(s, "get_area_temperature", <<x, y, width, height>>,
                GetAreaTemperature(frame, x, y, width, height))

LineQuery(s) ==
    \E x1 \in QueryXs, y1 \in QueryYs, x2 \in QueryXs, y2 \in QueryYs :
        Queried(s, "get_line_temperature", <<x1, y1, x2, y2>>,
                GetLineTemperature(frame, x1, y1, x2, y2))

HotspotQuery(s) == Queried(s, "find_hotspot", <<>>, FindHotspot(frame))

ColdspotQuery(s) == Queried(s, "find_coldspot", <<>>, FindColdspot(frame))

CelsiusQuery(s) ==
    Queried(s, "get_temperature_celsius", <<>>, GetTemperatureCelsius(frame))

StatsQuery(s) ==
    Queried(s, "get_temperature_stats", <<>>, GetTemperatureStats(frame))

\* A caller's first call on a frame is one query.
FirstPointQuery(s) == last.op = "init" /\ PointQuery(s)
FirstAreaQuery(s) == last.op = "init" /\ AreaQuery(s)
FirstLineQuery(s) == last.op = "init" /\ LineQuery(s)
FirstHotspotQuery(s) == last.op = "init" /\ HotspotQuery(s)
FirstColdspotQuery(s) == last.op = "init" /\ ColdspotQuery(s)
FirstStatsQuery(s) == last.op = "init" /\ StatsQuery(s)
FirstCelsiusQuery(s) == last.op = "init" /\ CelsiusQuery(s)

NextQuery ==
    \/ \E s \in FirstSession : FirstPointQuery(s)
    \/ \E s \in FirstSession : FirstAreaQuery(s)
    \/ \E s \in FirstSession : FirstLineQuery(s)
    \/ \E s \in FirstSession : FirstHotspotQuery(s)
    \/ \E s \in FirstSession : FirstColdspotQuery(s)
    \/ \E s \in FirstSession : FirstStatsQuery(s)
    \/ \E s \in FirstSession : FirstCelsiusQuery(s)

SpecQuery == InitQuery /\ [][NextQuery]_vars

\* ------------------------------------------------ the worked example
\* The raw frame of 3 rows and 4 columns that reads CalBase degrees
\* everywhere but in row 1, column 1, where it reads CalBase + CalStep.
ExampleFrame ==
    <<<<CalLo, CalLo, CalLo, CalLo>>,
      <<CalLo, CalHi, CalLo, CalLo>>,
      <<CalLo, CalLo, CalLo, CalLo>>>>

InitExample == Constructed /\ Idle /\ frame = ExampleFrame

\* get_area_temperature() with a corner and an extent anywhere from 0 to
\* the frame's width and height.
ExampleAreaQuery(s) ==
    /\ last.op = "init"
    /\ \E x \in 0 .. Width(frame), y \in 0 .. Height(frame),
          width \in 0 .. Width(frame), height \in 0 .. Height(frame) :
           Queried(s, "get_area_temperature", <<x, y, width, height>>,
                   GetAreaTemperature(frame, x, y, width, height))

NextExample ==
    \/ \E s \in FirstSession : ExampleAreaQuery(s)
    \/ \E s \in FirstSession : FirstHotspotQuery(s)

SpecExample == InitExample /\ [][NextExample]_vars

\* ---------------------------------------------- a query made again
\* A program that makes one point query and keeps what it got, makes other
\* queries on the same frame, and makes the point query again with the
\* coordinates of the first.
NothingKept == [args |-> <<>>, res |-> "none", val |-> <<>>]

\* The frames that read the bottom of the band everywhere, or everywhere
\* but in one pixel that reads the top of it, and the zero-size array.
BandFrames ==
    {Painted(CalLo, CalHi, S) : S \in {{}} \cup {{p} : p \in Pixels}}
    \cup {EmptyArray}

InitPure ==
    /\ Constructed
    /\ frame \in BandFrames
    /\ prog = [pc |-> "first", kept |-> NothingKept]
    /\ env = NoEnv
    /\ inst = NoInst

\* The call of op with args hands back r.
Returned(s, op, args, r) ==
    last' = [Call(s, op) EXCEPT !.args = args, !.res = r.res, !.val = r.val]

PureFirstPoint(s) ==
    /\ prog.pc = "first"
    /\ \E x \in QueryXs, y \in QueryYs :
           LET r == GetPointTemperature(frame, x, y)
           IN  /\ Returned(s, "get_point_temperature", <<x, y>>, r)
               /\ prog' = [pc |-> "again",
                           kept |-> [args |-> <<x, y>>, res |-> r.res,
                                     val |-> r.val]]
    /\ UNCHANGED <<initialized, nat, tslot, islot, demoPc, cap, frame, env,
                   inst>>

\* The queries made in between, with the arguments the demo gives them:
\* the rectangle and the line span the frame.
OtherQueries ==
    {[op |-> "get_area_temperature",
      args |-> <<0, 0, Width(frame), Height(frame)>>,
      r |-> GetAreaTemperature(frame, 0, 0, Width(frame), Height(frame))],
     [op |-> "get_line_temperature",
      args |-> <<0, 0, Width(frame) - 1, Height(frame) - 1>>,
      r |-> GetLineTemperature(frame, 0, 0, Width(frame) - 1,
                               Height(frame) - 1)],
     [op |-> "find_hotspot", args |-> <<>>, r |-> FindHotspot(frame)],
     [op |-> "find_coldspot", args |-> <<>>, r |-> FindColdspot(frame)],
     [op |-> "get_temperature_stats", args |-> <<>>,
      r |-> GetTemperatureStats(frame)],
     [op |-> "get_temperature_celsius", args |-> <<>>,
      r |-> GetTemperatureCelsius(frame)]}

\* A query in between that writes its Celsius matrix over the caller's
\* frame.
PureOtherInPlace(s) ==
    /\ prog.pc = "again"
    /\ \E q \in OtherQueries :
           /\ Returned(s, q.op, q.args, q.r)
           /\ frame' = IF q.op = "get_temperature_celsius" /\ q.r.res = "value"
                       THEN q.r.val ELSE frame
    /\ UNCHANGED <<initialized, nat, tslot, islot, demoPc, cap, prog, env,
                   inst>>

PureOther(s) ==
    /\ prog.pc = "again"
    /\ \E q \in OtherQueries : Returned(s, q.op, q.args, q.r)
    /\ UNCHANGED <<initialized, nat, tslot, islot, demoPc, cap, frame, prog,
                   env, inst>>

PureAgainPoint(s) ==
    /\ prog.pc = "again"
    /\ Returned(s, "get_point_temperature", prog.kept.args,
                GetPointTemperature(frame, prog.kept.args[1],
                                    prog.kept.args[2]))
    /\ UNCHANGED <<initialized, nat, tslot, islot, demoPc, cap, frame, prog,
                   env, inst>>

NextPure ==
    \/ \E s \in FirstSession : PureFirstPoint(s)
    \/ \E s \in FirstSession : PureOther(s)
    \/ \E s \in FirstSession : PureAgainPoint(s)

SpecPure == InitPure /\ [][NextPure]_vars

\* ------------------------------------- queries on several threads
\* Threads that each make one call of the converter or of a query on the
\* frame they share; nothing writes the frame.  A call is two steps: the
\* method is entered with its arguments, then it computes and returns.
NumThreads == 2
Threads == 1 .. NumThreads

\* The calls a thread makes, with the arguments the demo gives them: the
\* point is the centre of the frame, the rectangle and the line span it.
ThreadCalls ==
    {[op |-> "get_point_temperature",
      args |-> <<Width(frame) \div 2, Height(frame) \div 2>>],
     [op |-> "get_area_temperature",
      args |-> <<0, 0, Width(frame), Height(frame)>>],
     [op |-> "get_line_temperature",
      args |-> <<0, 0, Width(frame) - 1, Height(frame) - 1>>],
     [op |-> "find_hotspot", args |-> <<>>],
     [op |-> "find_coldspot", args |-> <<>>],
     [op |-> "get_temperature_stats", args |-> <<>>],
     [op |-> "get_temperature_celsius", args |-> <<>>]}

\* What the call of op with args hands back when it runs by itself.
RunAlone(op, args) ==
    CASE op = "get_point_temperature" ->
             GetPointTemperature(frame, args[1], args[2])
      [] op = "get_area_temperature" ->
             GetAreaTemperature(frame, args[1], args[2], args[3], args[4])
      [] op = "get_line_temperature" ->
             GetLineTemperature(frame, args[1], args[2], args[3], args[4])
      [] op = "find_hotspot" -> FindHotspot(frame)
      [] op = "find_coldspot" -> FindColdspot(frame)
      [] op = "get_temperature_stats" -> GetTemperatureStats(frame)
      [] op = "get_temperature_celsius" -> GetTemperatureCelsius(frame)

ThreadIdle == [pc |-> "idle", op |-> "none", args |-> <<>>, r |-> PyNone]

InitThreads ==
    /\ Constructed
    /\ frame \in BandFrames
    /\ prog = [pc |-> "threads", th |-> [t \in Threads |-> ThreadIdle]]
    /\ env = NoEnv
    /\ inst = NoInst

ThreadCall(t) ==
    /\ prog.pc = "threads"
    /\ prog.th[t].pc = "idle"
    /\ \E q \in ThreadCalls :
           prog' = [prog EXCEPT !.th[t] = [pc |-> "running", op |-> q.op,
                                           args |-> q.args, r |-> PyNone]]
    /\ UNCHANGED <<initialized, nat, tslot, islot, demoPc, last, cap, frame,
                   env, inst>>

\* A return that computes with the arguments of whichever call is running
\* on the shared processor object at that moment.
ThreadReturnSharedSlot(t) ==
    /\ prog.pc = "threads"
    /\ prog.th[t].pc = "running"
    /\ \E u \in Threads :
           /\ prog.th[u].pc = "running"
           /\ prog' = [prog EXCEPT
                          !.th[t].pc = "done",
                          !.th[t].r = RunAlone(prog.th[u].op, prog.th[u].args)]
    /\ UNCHANGED <<initialized, nat, tslot, islot, demoPc, last, cap, frame,
                   env, inst>>

ThreadReturn(t) ==
    /\ prog.pc = "threads"
    /\ prog.th[t].pc = "running"
    /\ prog' = [prog EXCEPT
                   !.th[t].pc = "done",
                   !.th[t].r = RunAlone(prog.th[t].op, prog.th[t].args)]
    /\ UNCHANGED <<initialized, nat, tslot, islot, demoPc, last, cap, frame,
                   env, inst>>

NextThreads ==
    \/ \E t \in Threads : ThreadCall(t)
    \/ \E t \in Threads : ThreadReturn(t)

SpecThreads == InitThreads /\ [][NextThreads]_vars

\* --------------------------------------- with TinyThermalCamera() as cam
\* Each session object is used in with-blocks only. blk[s] is where the
\* block on s stands: "out" (not entered), "raised" (__enter__ raised),
\* "body" (inside), "leaving" (an exception is on its way out of the body),
\* "exited" / "exited_exc" (__exit__ has run, after a normal end or an
\* exception).
InitWith ==
    /\ Constructed
    /\ frame = SampleFrame
    /\ prog = [pc |-> "with", blk |-> [s \in Sessions |-> "out"]]
    /\ env = NoEnv
    /\ inst = NoInst

NotInside(s) == prog.blk[s] \in {"out", "raised", "exited", "exited_exc"}

\* __enter__ that hands back self whatever open() returned.
EnterIgnoresFailure(s) ==
    /\ prog.pc = "with"
    /\ NotInside(s)
    /\ Open(s)
    /\ prog' = [prog EXCEPT !.blk[s] = "body"]

\* __enter__: open(), and RuntimeError if it returned False.
Enter(s) ==
    /\ prog.pc = "with"
    /\ NotInside(s)
    /\ Open(s)
    /\ prog' = [prog EXCEPT
                   !.blk[s] = IF last'.res = "true" THEN "body" ELSE "raised"]

\* A wrapper call in the body; one that raises is on its way out.
InBody(s) == prog.pc = "with" /\ prog.blk[s] = "body"

BodyGoesOn(s) ==
    prog' = [prog EXCEPT
                !.blk[s] = IF last'.res = "raise" THEN "leaving" ELSE "body"]

BodyStartStreaming(s) == InBody(s) /\ StartStreaming(s) /\ BodyGoesOn(s)
BodyStopStreaming(s) == InBody(s) /\ StopStreaming(s) /\ BodyGoesOn(s)
BodyCaptureFrame(s) == InBody(s) /\ CaptureFrame(s) /\ BodyGoesOn(s)

\* Any other statement of the body raises.
BodyRaises(s) ==
    /\ prog.pc = "with"
    /\ prog.blk[s] = "body"
    /\ prog' = [prog EXCEPT !.blk[s] = "leaving"]
    /\ UNCHANGED <<initialized, nat, tslot, islot, demoPc, last, cap, frame,
                   env, inst>>

\* __exit__ that closes only after a body that ended normally.
ExitOnlyOnSuccess(s) ==
    /\ prog.pc = "with"
    /\ prog.blk[s] \in {"body", "leaving"}
    /\ IF prog.blk[s] = "body"
       THEN Close(s) /\ prog' = [prog EXCEPT !.blk[s] = "exited"]
       ELSE /\ prog' = [prog EXCEPT !.blk[s] = "exited_exc"]
            /\ UNCHANGED <<initialized, nat, tslot, islot, demoPc, last, cap,
                           frame, env, inst>>

\* __exit__: close(), whatever exc_type is; the exception goes on.
Exit(s) ==
    /\ prog.pc = "with"
    /\ prog.blk[s] \in {"body", "leaving"}
    /\ Close(s)
    /\ prog' = [prog EXCEPT
                   !.blk[s] = IF prog.blk[s] = "body" THEN "exited"
                              ELSE "exited_exc"]

NextWith ==
    \/ \E s \in Sessions : Enter(s)
    \/ \E s \in Sessions : BodyStartStreaming(s)
    \/ \E s \in Sessions : BodyStopStreaming(s)
    \/ \E s \in Sessions : BodyCaptureFrame(s)
    \/ \E s \in Sessions : BodyRaises(s)
    \/ \E s \in Sessions : Exit(s)
    \/ FrameArrives
    \/ SlotDrains

SpecWith == InitWith /\ [][NextWith]_vars

\* ------------------------ quick_capture, quick_temperature_at_point
\* One call of one of the two convenience functions. prog.pc is where it
\* stands, prog.s the camera object of the with-block it is in, prog.qc what
\* quick_capture handed back, prog.ret what the function hands back, and
\* prog.failed whether a step of it failed.
QuickFns == {"quick_capture", "quick_temperature_at_point"}

NoFrames == <<None, None>>

InitQuick ==
    /\ Constructed
    /\ frame = SampleFrame
    /\ \E fn \in QuickFns :
           prog = [pc |-> "call", fn |-> fn, s |-> 0, qc |-> NoFrames,
                   ret |-> PyNone, failed |-> FALSE]
    /\ env = NoEnv
    /\ inst = NoInst

\* with TinyThermalCamera() as camera: a new object, and __enter__ on it.
\* The RuntimeError of a failed open() is caught by the function.
QuickEnter(s) ==
    /\ prog.pc \in {"call", "second"}
    /\ ~initialized[s] /\ nat[s] = "closed"
    /\ Open(s)
    /\ prog' =
           IF last'.res = "true"
           THEN [prog EXCEPT !.s = s,
                             !.pc = IF prog.pc = "call" THEN "start"
                                    ELSE "point"]
           ELSE IF prog.pc = "call"
           THEN [prog EXCEPT !.pc = "captured", !.qc = NoFrames,
                             !.failed = TRUE]
           ELSE [prog EXCEPT !.pc = "done", !.ret = PyNone, !.failed = TRUE]

\* if camera.start_streaming():
QuickStart ==
    /\ prog.pc = "start"
    /\ StartStreaming(prog.s)
    /\ last'.wait
    /\ prog' = IF last'.res = "true"
               THEN [prog EXCEPT !.pc = "capture"]
               ELSE [prog EXCEPT !.pc = "exit", !.qc = NoFrames,
                                 !.failed = TRUE]

\* return camera.capture_frame()
QuickCapture ==
    /\ prog.pc = "capture"
    /\ CaptureFrame(prog.s)
    /\ prog' = IF last'.res = "frames"
               THEN [prog EXCEPT !.pc = "exit",
                                 !.qc = <<last'.temp, last'.image>>]
               ELSE [prog EXCEPT !.pc = "exit", !.qc = NoFrames,
                                 !.failed = TRUE]

\* return camera.get_point_temperature(temp_frame, x, y)
QuickPoint ==
    /\ prog.pc = "point"
    /\ \E x \in QueryXs, y \in QueryYs :
           LET r == GetPointTemperature(frame, x, y)
           IN  /\ Returned(prog.s, "get_point_temperature", <<x, y>>, r)
               /\ prog' = [prog EXCEPT !.pc = "exit2", !.ret = r,
                                       !.failed = (r.res # "value")]
    /\ UNCHANGED <<initialized, nat, tslot, islot, demoPc, cap, frame, env,
                   inst>>

\* The way out of a with-block that calls __exit__ only when the block
\* failed, not when it returns a result.
QuickExitOnlyOnFailure ==
    /\ prog.pc \in {"exit", "exit2"}
    /\ prog' = [prog EXCEPT
                   !.pc = IF prog.pc = "exit" THEN "captured" ELSE "done"]
    /\ IF prog.failed
       THEN Close(prog.s)
       ELSE UNCHANGED <<initialized, nat, tslot, islot, demoPc, last, cap,
                        frame, env, inst>>

\* The way out of either with-block: __exit__ closes the camera. The first
\* block leads to quick_capture's return, the second to the function's.
QuickExit ==
    /\ prog.pc \in {"exit", "exit2"}
    /\ Close(prog.s)
    /\ prog' = [prog EXCEPT
                   !.pc = IF prog.pc = "exit" THEN "captured" ELSE "done"]

\* quick_capture has handed back prog.qc: it is the result, or its
\* temperature frame decides whether the second block is entered.
QuickCaptured ==
    /\ prog.pc = "captured"
    /\ prog' =
           IF prog.fn = "quick_capture"
           THEN [prog EXCEPT !.pc = "done", !.ret = Value(prog.qc)]
           ELSE IF prog.qc[1] # None
           THEN [prog EXCEPT !.pc = "second"]
           ELSE [prog EXCEPT !.pc = "done", !.ret = PyNone, !.failed = TRUE]
    /\ UNCHANGED <<initialized, nat, tslot, islot, demoPc, last, cap, frame,
                   env, inst>>

NextQuick ==
    \/ \E s \in Sessions : QuickEnter(s)
    \/ QuickStart
    \/ QuickCapture
    \/ QuickPoint
    \/ QuickExit
    \/ QuickCaptured
    \/ FrameArrives
    \/ SlotDrains

SpecQuick == InitQuick /\ [][NextQuick]_vars

\* ---------------------------------------------- library search path
\* The search-path variable is a string, modelled as a sequence of
\* one-character strings: PATH on Windows, LD_LIBRARY_PATH on Linux.
\* Longest value the variable holds before the first set-up call.
MaxPathLen == 3

Platforms == {"windows", "linux"}
\* os.pathsep
PathSep(os) == IF os = "windows" THEN ";" ELSE ":"
PathChars == {"d", "w", ";", ":"}
PathStrings == UNION {[1..k -> PathChars] : k \in 0..MaxPathLen}
\* str(dll_dir.absolute()), str(lib_dir.absolute()): the package's directory.
PackageDir == <<"d">>
\* dll_dir of the wrapper module.
WrapperDir == <<"w">>
Dir(f) == IF f = "package" THEN PackageDir ELSE WrapperDir

\* Python's `sub in str` on strings: sub occurs somewhere in str.
Contains(sub, str) ==
    \E i \in 0..(Len(str) - Len(sub)) : SubSeq(str, i + 1, i + Len(sub)) = sub

\* The variable's entries: the pieces between separators, none for "".
RECURSIVE SplitAt(_, _)
SplitAt(str, sep) ==
    IF \A i \in 1..Len(str) : str[i] # sep
    THEN <<str>>
    ELSE LET i == CHOOSE j \in 1..Len(str) :
                      str[j] = sep /\ \A k \in 1..(j - 1) : str[k] # sep
         IN  <<SubSeq(str, 1, i - 1)>>
                 \o SplitAt(SubSeq(str, i + 1, Len(str)), sep)
Entries(str, sep) == IF str = <<>> THEN <<>> ELSE SplitAt(str, sep)

\* The process before any set-up: its platform, which of the two library
\* directories exist on disk, the variable's value then and now, and the
\* set-up functions that have run.
InitPath ==
    /\ Constructed
    /\ frame = SampleFrame
    /\ prog = NoProg
    /\ inst = NoInst
    /\ \E os \in Platforms, ex \in SUBSET {"package", "wrapper"},
          p \in PathStrings :
           env = [os |-> os, exists |-> ex, prior |-> p, val |-> p,
                  called |-> {}]

\* The assignment both Windows functions make.
Prepended(dir, cur, os) == dir \o <<PathSep(os)>> \o cur

\* setup_windows_dlls(module_dir), reached from setup_library_search_path
\* on Windows.
SetupWindowsDlls ==
    /\ env.os = "windows"
    /\ env' = [env EXCEPT
                 !.called = @ \cup {"package"},
                 !.val = IF /\ "package" \in env.exists
                            /\ ~Contains(PackageDir, @)
                         THEN Prepended(PackageDir, @, env.os)
                         ELSE @]
    /\ UNCHANGED <<initialized, nat, tslot, islot, demoPc, last, cap, frame,
                   prog, inst>>

\* setup_linux_libraries(module_dir), reached from
\* setup_library_search_path on Linux.
SetupLinuxLibraries ==
    /\ env.os = "linux"
    /\ env' = [env EXCEPT
                 !.called = @ \cup {"package"},
                 !.val = IF /\ "package" \in env.exists
                            /\ ~Contains(PackageDir, @)
                         THEN IF @ # <<>>
                              THEN Prepended(PackageDir, @, env.os)
                              ELSE PackageDir
                         ELSE @]
    /\ UNCHANGED <<initialized, nat, tslot, islot, demoPc, last, cap, frame,
                   prog, inst>>

\* _setup_dll_path() of the wrapper module: Windows only.
SetupDllPath ==
    /\ env.os = "windows"
    /\ env' = [env EXCEPT
                 !.called = @ \cup {"wrapper"},
                 !.val = IF /\ "wrapper" \in env.exists
                            /\ ~Contains(WrapperDir, @)
                         THEN Prepended(WrapperDir, @, env.os)
                         ELSE @]
    /\ UNCHANGED <<initialized, nat, tslot, islot, demoPc, last, cap, frame,
                   prog, inst>>

NextPath ==
    \/ SetupWindowsDlls
    \/ SetupLinuxLibraries
    \/ SetupDllPath

SpecPath == InitPath /\ [][NextPath]_vars

\* ------------------------------------------- install_driver.py: main()
\* What a PowerShell query printed, as the set of lower-case words its
\* output contains; the empty set is blank output.
Outputs == SUBSET {"winusb", "ok", "text"}
ReturnCodes == {0, 1}
\* One subprocess.run of the device query: it raised (a timeout, no
\* PowerShell), or returned with a return code and its output.
Queries ==
    {[res |-> "raised", rc |-> 0, out |-> {}]}
        \cup [res : {"output"}, rc : ReturnCodes, out : Outputs]
NotRun == [res |-> "unset", rc |-> 0, out |-> {}]

\* check_device_status() on the outcome q of its query.
CheckDeviceStatus(q) ==
    IF q.res = "raised" THEN "error"
    ELSE IF q.rc = 0 /\ q.out # {}
         THEN IF "winusb" \in q.out THEN "winusb_installed"
              ELSE IF q.out # {} THEN "other_driver"
              ELSE "no_driver"
         ELSE "not_found"

\* verify_installation() on the outcome q of its query.
VerifyInstallation(q) ==
    /\ q.res = "output"
    /\ q.rc = 0
    /\ q.out # {}
    /\ "winusb" \in q.out
    /\ "ok" \in q.out

\* What the user types at the confirmation prompt, stripped and lowered.
Choices == {"y", "n", "yes", ""}

\* main() has just been entered.
InitInstall ==
    /\ Constructed
    /\ frame = SampleFrame
    /\ prog = NoProg
    /\ env = NoEnv
    /\ inst = [pc |-> "platform", steps |-> <<>>, check |-> NotRun,
               status |-> "unset", choice |-> "unset", zadig |-> "unset",
               verify |-> NotRun, exit |-> None]

\* main() goes from pc to the next step, or returns with an exit code.
Goes(step, to) ==
    [inst EXCEPT !.pc = to, !.steps = Append(@, step)]
Returns(step, code) ==
    [inst EXCEPT !.pc = "returned", !.steps = Append(@, step),
                 !.exit = code]

\* if sys.platform != 'win32': return 1
MainPlatform ==
    /\ inst.pc = "platform"
    /\ \E win32 \in BOOLEAN :
           inst' = IF win32 THEN Goes("windows", "admin")
                   ELSE Returns("not windows", 1)
    /\ UNCHANGED <<initialized, nat, tslot, islot, demoPc, last, cap, frame,
                   prog, env>>

\* if not is_admin(): return 0 if run_as_admin() else 1
MainAdmin ==
    /\ inst.pc = "admin"
    /\ \E admin \in BOOLEAN, elevated \in BOOLEAN :
           inst' = IF admin THEN Goes("admin", "device")
                   ELSE IF elevated THEN Returns("elevated", 0)
                   ELSE Returns("not admin", 1)
    /\ UNCHANGED <<initialized, nat, tslot, islot, demoPc, last, cap, frame,
                   prog, env>>

\* device_status = check_device_status() and the branches on it.
MainCheckDevice ==
    /\ inst.pc = "device"
    /\ \E q \in Queries :
           LET device_status == CheckDeviceStatus(q)
               checked == [inst EXCEPT !.check = q,
                                       !.status = device_status]
           IN  inst' =
                   IF device_status = "not_found"
                   THEN [checked EXCEPT !.pc = "returned",
                                        !.steps = Append(@, "checked"),
                                        !.exit = 1]
                   ELSE IF device_status = "winusb_installed"
                   THEN [checked EXCEPT !.pc = "returned",
                                        !.steps = Append(@, "checked"),
                                        !.exit = 0]
                   ELSE [checked EXCEPT !.pc = "offer",
                                        !.steps = Append(@, "checked")]
    /\ UNCHANGED <<initialized, nat, tslot, islot, demoPc, last, cap, frame,
                   prog, env>>

\* choice = input("Proceed with driver installation? (y/n): ")
MainOffer ==
    /\ inst.pc = "offer"
    /\ \E choice \in Choices :
           inst' = IF choice # "y"
                   THEN [Returns("declined", 0) EXCEPT !.choice = choice]
                   ELSE [Goes("confirmed", "download") EXCEPT
                            !.choice = choice]
    /\ UNCHANGED <<initialized, nat, tslot, islot, demoPc, last, cap, frame,
                   prog, env>>

\* install_driver(): zadig_path = download_zadig(); without it main
\* returns 1.
DownloadZadig ==
    /\ inst.pc = "download"
    /\ \E got \in BOOLEAN :
           inst' = IF got
                   THEN [Goes("downloaded", "launch") EXCEPT
                            !.zadig = "downloaded"]
                   ELSE [Returns("no zadig", 1) EXCEPT !.zadig = "missing"]
    /\ UNCHANGED <<initialized, nat, tslot, islot, demoPc, last, cap, frame,
                   prog, env>>

\* install_driver(): subprocess.Popen([zadig_path]); when it raises main
\* returns 1.
LaunchZadig ==
    /\ inst.pc = "launch"
    /\ \E started \in BOOLEAN :
           inst' = IF started
                   THEN [Goes("launched", "verify") EXCEPT
                            !.zadig = "launched"]
                   ELSE [Returns("launch failed", 1) EXCEPT
                            !.zadig = "failed"]
    /\ UNCHANGED <<initialized, nat, tslot, islot, demoPc, last, cap, frame,
                   prog, env>>

\* if verify_installation(): return 0 else: return 1
MainVerify ==
    /\ inst.pc = "verify"
    /\ \E q \in Queries :
           inst' = [Returns(IF VerifyInstallation(q) THEN "verified"
                            ELSE "not verified",
                            IF VerifyInstallation(q) THEN 0 ELSE 1)
                       EXCEPT !.verify = q]
    /\ UNCHANGED <<initialized, nat, tslot, islot, demoPc, last, cap, frame,
                   prog, env>>

NextInstall ==
    \/ MainPlatform
    \/ MainAdmin
    \/ MainCheckDevice
    \/ MainOffer
    \/ DownloadZadig
    \/ LaunchZadig
    \/ MainVerify

SpecInstall == InitInstall /\ [][NextInstall]_vars

\* ------------------------------------------- calls and their retries
\* One session opened, started, stopped, closed and polled, with point
\* queries on the frame in the caller's hands, in any order and any number
\* of times.
NextRetry ==
    \/ \E s \in FirstSession : Open(s) /\ UNCHANGED prog
    \/ \E s \in FirstSession : Close(s) /\ UNCHANGED prog
    \/ \E s \in FirstSession : StartStreaming(s) /\ UNCHANGED prog
    \/ \E s \in FirstSession : StopStreaming(s) /\ UNCHANGED prog
    \/ \E s \in FirstSession : CaptureFrame(s) /\ UNCHANGED prog
    \/ \E s \in FirstSession : PointQuery(s)
    \/ FrameArrives
    \/ SlotDrains

SpecRetry == Init /\ [][NextRetry]_vars

\* ------------------------------------------------------------ claims
\* The last call was made on a TinyThermalCamera object.
OnWrapper(op) == last.op = op /\ last.s \in Sessions

\* In the sequence of native calls, some a comes before some b.
Precedes(calls, a, b) ==
    \E i, j \in 1..Len(calls) : i < j /\ calls[i] = a /\ calls[j] = b

\* C1: open() on a Closed session with the device available (present and
\* not held by another session) leaves it Opened; open() on an Opened or
\* Streaming session is a successful no-op: the native open is not invoked
\* and neither the session state nor the native state (an active stream
\* included) changes.
C1_OpenNoReinit ==
    OnWrapper("open") =>
        /\ (last.pre = "Closed" /\ last.avail /\ ~last.busy) =>
               (State(last.s) = "Opened" /\ last.res = "true")
        /\ (last.pre \in {"Opened", "Streaming"}) =>
               /\ last.calls = <<>>
               /\ last.res = "true"
               /\ State(last.s) = last.pre
               /\ nat[last.s] = last.preNat

\* C1 witness: open() was called during an active stream.
C1_Witness ==
    OnWrapper("open") /\ last.pre = "Streaming" /\ State(last.s) = "Streaming"

\* C2: close() from any state leaves the session Closed, not open, not
\* streaming, with the native session closed (the device released); from
\* Streaming the native stop_stream is called before the native close.
\* The demo's cleanup does the same on its own camera.
C2_CloseLeavesClosed ==
    /\ OnWrapper("close") =>
          /\ State(last.s) = "Closed"
          /\ ~IsOpen(last.s) /\ ~IsStreaming(last.s)
          /\ nat[last.s] = "closed"
          /\ last.pre = "Streaming" =>
                Precedes(last.calls, "stop_stream", "close")
    /\ last.op = "demo_cleanup" =>
          /\ DemoState = "Closed"
          /\ last.pre = "Streaming" =>
                Precedes(last.calls, "stop_stream", "close")

\* C2 witness: close() was called on a streaming session.
C2_Witness ==
    OnWrapper("close") /\ last.pre = "Streaming" /\ State(last.s) = "Closed"

\* C3: a close() that directly follows a close() of the same session finds
\* it Closed, leaves it Closed, makes no native call (no stop_stream, no
\* close) and returns normally.
C3_CloseTwiceNoOp ==
    (OnWrapper("close") /\ last.before = [s |-> last.s, op |-> "close"]) =>
        /\ last.pre = "Closed"
        /\ State(last.s) = "Closed"
        /\ last.calls = <<>>
        /\ last.res = "none"
        /\ nat[last.s] = last.preNat

\* C3 witness: two close() calls in a row on one session.
C3_Witness ==
    OnWrapper("close") /\ last.before = [s |-> last.s, op |-> "close"]

\* C4: start_streaming() reports success only from Opened, and the session
\* is then Streaming; from Closed it raises, from Streaming it returns
\* False, and in both cases the session and native states are unchanged.
C4_StartOnlyFromOpened ==
    OnWrapper("start_streaming") =>
        /\ last.res = "true" =>
               (last.pre = "Opened" /\ State(last.s) = "Streaming")
        /\ last.pre = "Closed" => last.res = "raise"
        /\ last.pre = "Streaming" => last.res = "false"
        /\ last.pre # "Opened" =>
               (State(last.s) = last.pre /\ nat[last.s] = last.preNat)

\* C4 witness: start_streaming() was refused on a Closed session.
C4_Witness ==
    OnWrapper("start_streaming") /\ last.pre = "Closed" /\ last.res = "raise"

\* C5: no step takes a session (or the demo's camera) from Closed straight
\* to Streaming; a step that enters Streaming starts from Opened.
C5_NoSkipOpened ==
    [][ /\ \A s \in Sessions :
             (State(s) # "Streaming" /\ State(s)' = "Streaming") =>
                 State(s) = "Opened"
        /\ (DemoState # "Streaming" /\ DemoState' = "Streaming") =>
                 DemoState = "Opened" ]_vars

\* C5 witness: a session has just entered Streaming through
\* start_streaming().
C5_Witness ==
    OnWrapper("start_streaming") /\ last.pre = "Opened"
        /\ State(last.s) = "Streaming"

\* C6: stop_streaming() takes a Streaming session to Opened (not Closed)
\* and returns True; on an Opened session that is not streaming it leaves
\* the session Opened and does not raise.
C6_StopGoesToOpened ==
    OnWrapper("stop_streaming") =>
        /\ last.pre = "Streaming" =>
               (State(last.s) = "Opened" /\ last.res = "true")
        /\ last.pre = "Opened" =>
               (State(last.s) = "Opened" /\ last.res # "raise")

\* C6 witness: stop_streaming() was called on an Opened session that was
\* not streaming.
C6_Witness ==
    OnWrapper("stop_streaming") /\ last.pre = "Opened"
        /\ State(last.s) = "Opened"

\* C7: get_camera_info() returns (width, height, fps) exactly when the
\* session is Opened or Streaming; on a Closed session it fails.
C7_InfoOnlyWhenOpen ==
    OnWrapper("get_camera_info") =>
        /\ last.pre \in {"Opened", "Streaming"} => last.res = "info"
        /\ last.pre = "Closed" => last.res = "raise"

\* C7 witness: get_camera_info() was called right after close().
C7_Witness ==
    OnWrapper("get_camera_info") /\ last.pre = "Closed"
        /\ last.before = [s |-> last.s, op |-> "close"]

\* C8: at most one session object is Opened or Streaming, at most one
\* native session is open, and an open() made while another session holds
\* the device is rejected and leaves the caller Closed.
C8_SessionExclusivity ==
    /\ Cardinality({s \in Sessions : State(s) # "Closed"}) <= 1
    /\ Cardinality({c \in Cams : nat[c] # "closed"}) <= 1
    /\ (OnWrapper("open") /\ last.pre = "Closed" /\ last.busy) =>
           (last.res = "false" /\ State(last.s) = "Closed")

\* C8 witness: a second session tried open() with the device present while
\* another session was live.
C8_Witness ==
    /\ OnWrapper("open") /\ last.pre = "Closed" /\ last.busy /\ last.avail
    /\ \E t \in Sessions \ {last.s} : State(t) = "Streaming"

\* C9: capture_frame() on a session that is Opened but not Streaming
\* returns the empty sentinel (None) for the temperature frame.
C9_OpenedCaptureReturnsSentinel ==
    (OnWrapper("capture_frame") /\ last.pre = "Opened") =>
        (last.res = "frames" /\ last.temp = None)

\* C10: while Streaming, capture_frame() can always run to completion,
\* whatever the driver's slot holds, asks each native getter exactly once
\* and returns the slot's frame, or None when the slot is empty; the demo's
\* monitoring loop likewise gets the slot's frame or the zero-size array
\* on each pass and is never held up by an empty slot.
C10_AcquisitionNeverBlocks ==
    /\ \A s \in Sessions : State(s) = "Streaming" => ENABLED CaptureFrame(s)
    /\ (OnWrapper("capture_frame") /\ last.pre = "Streaming") =>
           /\ last.res = "frames"
           /\ last.calls = <<"is_streaming", "get_temperature_frame",
                             "get_image_frame">>
           /\ last.temp = IF last.preT = EmptyFrame THEN None ELSE last.preT
           /\ last.image = IF last.preI = EmptyFrame THEN None ELSE last.preI
    /\ demoPc = "monitor" => ENABLED DemoContinuousMonitoring
    /\ last.op = "demo_monitor_poll" =>
           /\ last.calls = <<"get_temperature_frame">>
           /\ last.temp = last.preT

\* C10 witness: capture_frame() ran on a streaming session while no frame
\* was ready and came back with None.
C10_Witness ==
    OnWrapper("capture_frame") /\ last.pre = "Streaming"
        /\ last.preT = EmptyFrame /\ last.temp = None

\* A call that reported failure: open() or start_streaming() returned False
\* or raised, capture_frame() raised or handed back None for the temperature
\* frame, a point query handed back None.
Failed(c) ==
    \/ c.op \in {"open", "start_streaming"} /\ c.res \in {"false", "raise"}
    \/ c.op = "capture_frame" /\ (c.res = "raise" \/ c.temp = None)
    \/ c.op = "get_point_temperature" /\ c.res = "none"

\* C12: a failed call never corrupts shared state: after open() fails,
\* start_streaming() fails, capture_frame() hands back no frame or a point
\* query fails, every session's flag and native handle and the caller's
\* frame are what they were before the call, so the same call can be made
\* again from the same state.  (The calibration parameters are constants.)
C12_FailedCallKeepsState ==
    [][ (last' # last /\ Failed(last')) =>
            /\ initialized' = initialized
            /\ nat' = nat
            /\ frame' = frame
            /\ \A s \in Sessions : last'.s = s => State(s)' = last'.pre ]_vars

\* open() failed on a Closed session for want of a device, was made again
\* and failed again, the session still Closed.
C12_Witness ==
    /\ OnWrapper("open") /\ last.res = "false" /\ ~last.avail
    /\ last.before = [s |-> last.s, op |-> "open"]
    /\ last.pre = "Closed" /\ State(last.s) = "Closed"

\* C13: when the other thread's stop_streaming() or close() falls between
\* the statements of a running capture_frame(), the session still ends
\* Opened after stop_streaming() and Closed (native session closed) after
\* close(); a call of the other thread changes nothing the capturing
\* thread holds (the frames it was handed, the arrays it has read so far);
\* and a capture_frame() that passed its streaming test returns a pair,
\* each member a frame or None, and does not raise.
C13_CancellationSafe ==
    [][ /\ \A s \in Sessions :
             /\ (last' # last /\ last'.s = s /\ last'.op = "stop_streaming"
                     /\ last'.pre = "Streaming") => State(s)' = "Opened"
             /\ (last' # last /\ last'.s = s /\ last'.op = "close") =>
                    (State(s)' = "Closed" /\ nat'[s] = "closed")
        /\ last' # last => cap' = cap
        /\ (cap.pc # "idle" /\ cap'.pc = "idle") =>
               /\ cap'.res = "frames"
               /\ cap'.temp \in FrameIds \cup {None}
               /\ cap'.image \in FrameIds \cup {None} ]_vars

\* C13 witness: a capture_frame() read its temperature frame, lost the
\* stream to the other thread before reading the image, and returned
\* (frame, None); the session is Closed by now.
C13_Witness ==
    /\ cap.pc = "idle" /\ cap.res = "frames" /\ cap.cancelled
    /\ cap.temp \in FrameIds /\ cap.image = None
    /\ State(cap.s) = "Closed" /\ last.op = "close"

InFrame(x, y) == 0 <= x /\ x < Width(frame) /\ 0 <= y /\ y < Height(frame)

\* The calibration of the raw count in row y, column x of the frame.
Celsius(x, y) == TempToCelsius(frame[y + 1][x + 1])

\* The pixel positions of the frame.
FramePixels == {p \in QueryXs \X QueryYs : InFrame(p[1], p[2])}

RECURSIVE Total(_)
Total(P) ==
    IF P = {} THEN 0
    ELSE LET p == CHOOSE q \in P : TRUE
         IN  Celsius(p[1], p[2]) + Total(P \ {p})

\* v is (max, min, avg) over exactly the pixels P: max and min are values
\* of pixels of P that bound all of them, and avg is the sum of all of
\* them over their number.
StatsOver(v, P) ==
    /\ \A p \in P : v[2] <= Celsius(p[1], p[2]) /\ Celsius(p[1], p[2]) <= v[1]
    /\ \E p \in P : Celsius(p[1], p[2]) = v[1]
    /\ \E p \in P : Celsius(p[1], p[2]) = v[2]
    /\ v[3] = <<Total(P), Cardinality(P)>>
    /\ v[2] * v[3][2] <= v[3][1] /\ v[3][1] <= v[1] * v[3][2]

\* C15: a point, rectangle or line query whose bounds exceed the frame (a
\* negative coordinate, x + w > width, y + h > height, a line endpoint
\* outside the frame) hands back None: no temperature and no (max, min,
\* avg) tuple, not even a partial one.
C15_OutOfBoundsNoPayload ==
    /\ OnWrapper("get_point_temperature")
           /\ ~InFrame(last.args[1], last.args[2])
       => last.res = "none" /\ last.val = <<>>
    /\ OnWrapper("get_area_temperature")
           /\ (\/ last.args[1] < 0 \/ last.args[2] < 0
               \/ last.args[1] + last.args[3] > Width(frame)
               \/ last.args[2] + last.args[4] > Height(frame))
       => last.res = "none" /\ last.val = <<>>
    /\ OnWrapper("get_line_temperature")
           /\ (\/ ~InFrame(last.args[1], last.args[2])
               \/ ~InFrame(last.args[3], last.args[4]))
       => last.res = "none" /\ last.val = <<>>

\* A rectangle that starts inside a full frame and runs over its right
\* edge was refused.
C15_Witness ==
    /\ OnWrapper("get_area_temperature")
    /\ Size(frame) > 0
    /\ InFrame(last.args[1], last.args[2])
    /\ last.args[3] > 0 /\ last.args[4] > 0
    /\ last.args[1] + last.args[3] > Width(frame)
    /\ last.args[2] + last.args[4] <= Height(frame)
    /\ last.res = "none" /\ last.val = <<>>

\* C16: get_point_temperature(frame, x, y) succeeds exactly when
\* 0 <= x < width and 0 <= y < height, and then hands back the calibration
\* of the raw count in row y, column x; for every other (x, y) it fails.
C16_PointReadsRowYColumnX ==
    OnWrapper("get_point_temperature") =>
        LET x == last.args[1]
            y == last.args[2]
        IN  IF 0 <= x /\ x < Width(frame) /\ 0 <= y /\ y < Height(frame)
            THEN /\ last.res = "value"
                 /\ last.val = <<TempToCelsius(frame[y + 1][x + 1])>>
            ELSE last.res = "none"

\* The one warm pixel of a frame, in row 1, column 2, was read at x = 2,
\* y = 1.
C16_Witness ==
    /\ OnWrapper("get_point_temperature")
    /\ last.args = <<2, 1>>
    /\ frame = Painted(CalLo, CalHi, {<<2, 1>>})
    /\ last.val = <<CalBase + CalStep>>

\* C17: get_area_temperature(frame, x, y, w, h) fails if w <= 0, h <= 0 or
\* the rectangle [x, x+w) x [y, y+h) is not fully inside the frame;
\* otherwise it hands back (max, min, avg) with max and min the extreme
\* Celsius values over all w*h pixels of the rectangle and avg their
\* unweighted mean, so min <= avg <= max.
C17_RectStats ==
    OnWrapper("get_area_temperature") =>
        LET x == last.args[1]
            y == last.args[2]
            w == last.args[3]
            h == last.args[4]
            P == {p \in FramePixels : /\ x <= p[1] /\ p[1] < x + w
                                      /\ y <= p[2] /\ p[2] < y + h}
        IN  IF w <= 0 \/ h <= 0 \/ x < 0 \/ y < 0
                 \/ x + w > Width(frame) \/ y + h > Height(frame)
            THEN last.res = "none"
            ELSE /\ last.res = "value"
                 /\ Cardinality(P) = w * h
                 /\ StatsOver(last.val, P)

\* A rectangle of several pixels, the warm one among them, gave a max
\* above its min and a mean strictly between them.
C17_Witness ==
    /\ OnWrapper("get_area_temperature")
    /\ last.res = "value"
    /\ last.args[3] * last.args[4] > 2
    /\ last.val[1] > last.val[2]
    /\ last.val[2] * last.val[3][2] < last.val[3][1]
    /\ last.val[3][1] < last.val[1] * last.val[3][2]

\* C18: for every in-bounds (x, y), get_area_temperature(frame, x, y, 1, 1)
\* succeeds and its max, min and avg all equal the value that
\* get_point_temperature(frame, x, y) hands back.
C18_UnitRectIsPoint ==
    (/\ OnWrapper("get_area_temperature")
     /\ InFrame(last.args[1], last.args[2])
     /\ last.args[3] = 1 /\ last.args[4] = 1) =>
        LET point == GetPointTemperature(frame, last.args[1], last.args[2])
        IN  /\ point.res = "value"
            /\ last.res = "value"
            /\ last.val[1] = point.val[1]
            /\ last.val[2] = point.val[1]
            /\ last.val[3][2] > 0
            /\ last.val[3][1] = point.val[1] * last.val[3][2]

\* The 1 x 1 rectangle at the one warm pixel of a frame, x = 2, y = 0, gave
\* that pixel's temperature three times.
C18_Witness ==
    /\ OnWrapper("get_area_temperature")
    /\ last.args = <<2, 0, 1, 1>>
    /\ frame = Painted(CalLo, CalHi, {<<2, 0>>})
    /\ last.val = <<CalBase + CalStep, CalBase + CalStep,
                    <<CalBase + CalStep, 1>>>>

\* C19: get_line_temperature(frame, x1, y1, x2, y2) fails if either
\* endpoint is outside the frame; otherwise the pixels it samples are those
\* of the integer rasterization of the segment, a set fixed by the
\* endpoints that contains both of them and only pixels of the frame, and
\* the result is (max, min, avg) over exactly those pixels.
C19_LineStats ==
    OnWrapper("get_line_temperature") =>
        LET x1 == last.args[1]
            y1 == last.args[2]
            x2 == last.args[3]
            y2 == last.args[4]
        IN  IF ~InFrame(x1, y1) \/ ~InFrame(x2, y2)
            THEN last.res = "none"
            ELSE LET sampled == LinePixels(x1, y1, x2, y2)
                 IN  /\ last.res = "value"
                     /\ <<x1, y1>> \in sampled
                     /\ <<x2, y2>> \in sampled
                     /\ sampled \subseteq FramePixels
                     /\ StatsOver(last.val, sampled)

\* A slanted line from corner to corner sampled three pixels, the warm one
\* between its ends.
C19_Witness ==
    /\ OnWrapper("get_line_temperature")
    /\ last.args = <<0, 0, 2, 1>>
    /\ last.res = "value"
    /\ last.val[3][2] = 3
    /\ Celsius(0, 0) = last.val[2] /\ Celsius(2, 1) = last.val[2]
    /\ last.val[1] > last.val[2]

\* <<x, y>> comes no later than p in row-major order.
RowMajorFirst(x, y, p) == y < p[2] \/ (y = p[2] /\ x <= p[1])

\* C20: find_hotspot(frame) hands back the global maximum Celsius value and
\* a location (x, y), x the column and y the row, of a pixel holding it;
\* of several such pixels the first in row-major order (lowest y, then
\* lowest x).  find_coldspot does the same for the global minimum.
C20_HotspotFirstInRowMajor ==
    /\ (OnWrapper("find_hotspot") /\ Size(frame) > 0) =>
           /\ last.res = "value"
           /\ LET x == last.val[1][1]
                  y == last.val[1][2]
              IN  /\ InFrame(x, y)
                  /\ Celsius(x, y) = last.val[2]
                  /\ \A p \in FramePixels :
                         /\ Celsius(p[1], p[2]) <= last.val[2]
                         /\ Celsius(p[1], p[2]) = last.val[2]
                                => RowMajorFirst(x, y, p)
    /\ (OnWrapper("find_coldspot") /\ Size(frame) > 0) =>
           /\ last.res = "value"
           /\ LET x == last.val[1][1]
                  y == last.val[1][2]
              IN  /\ InFrame(x, y)
                  /\ Celsius(x, y) = last.val[2]
                  /\ \A p \in FramePixels :
                         /\ Celsius(p[1], p[2]) >= last.val[2]
                         /\ Celsius(p[1], p[2]) = last.val[2]
                                => RowMajorFirst(x, y, p)

\* On a warm frame whose one cool pixel is the first, the hotspot is the
\* second pixel of the first row, x = 1, y = 0, ahead of the equally warm
\* pixels after it.
C20_Witness ==
    /\ OnWrapper("find_hotspot")
    /\ frame = Painted(CalHi, CalLo, {<<0, 0>>})
    /\ last.val = <<<<1, 0>>, CalBase + CalStep>>

\* C11: every exposed operation reports an expected absence of data (no
\* frame ready, not Streaming, an empty frame, out-of-range coordinates)
\* through its result and never by raising.
C11_AbsenceNeverRaises ==
    (/\ last.s \in Sessions
     /\ last.op \in {"capture_frame", "get_point_temperature",
                     "get_area_temperature", "get_line_temperature",
                     "find_hotspot", "find_coldspot"})
        => last.res # "raise"

\* C21: on every non-empty frame the value find_hotspot() hands back equals
\* get_temperature_stats()['max'], the value find_coldspot() hands back
\* equals ['min'], and ['range'] is that max minus that min.
C21_StatsAgreeWithSpots ==
    (OnWrapper("get_temperature_stats") /\ Size(frame) > 0) =>
        /\ last.res = "value"
        /\ FindHotspot(frame).res = "value"
        /\ FindColdspot(frame).res = "value"
        /\ FindHotspot(frame).val[2] = last.val.max
        /\ FindColdspot(frame).val[2] = last.val.min
        /\ last.val.range = last.val.max - last.val.min

\* The statistics of a cool frame with one warm pixel: min and max differ
\* and the range is the calibrated span between them.
C21_Witness ==
    /\ OnWrapper("get_temperature_stats")
    /\ frame = Painted(CalLo, CalHi, {<<1, 1>>})
    /\ last.val.min = CalBase /\ last.val.max = CalBase + CalStep
    /\ last.val.range = CalStep

\* The Celsius matrix of the worked example.
ExampleCelsius ==
    <<<<20, 20, 20, 20>>, <<20, 90, 20, 20>>, <<20, 20, 20, 20>>>>

\* C22 as stated: on the frame whose Celsius matrix is
\* [[20,20,20,20],[20,90,20,20],[20,20,20,20]], find_hotspot() hands back
\* location (1, 1) with value 90, and get_area_temperature(frame, 0, 0, 4, 3)
\* hands back max 90, min 20 and avg 27.5 as the unweighted mean of the 12
\* pixels of the rectangle.
C22_ExampleAsStated ==
    frame = ExampleFrame =>
        /\ GetTemperatureCelsius(frame).val = ExampleCelsius
        /\ OnWrapper("find_hotspot") =>
               last.res = "value" /\ last.val = <<<<1, 1>>, 90>>
        /\ (OnWrapper("get_area_temperature") /\ last.args = <<0, 0, 4, 3>>) =>
               /\ last.res = "value"
               /\ last.val[1] = 90
               /\ last.val[2] = 20
               /\ last.val[3][2] = 12
               /\ 2 * last.val[3][1] = 55 * last.val[3][2]

\* C22: on that frame find_hotspot() hands back location (1, 1) with value
\* 90, and get_area_temperature(frame, 0, 0, 4, 3) hands back max 90, min 20
\* and avg 310 / 12 (25.83...), the unweighted mean of the 12 pixels of the
\* rectangle: eleven of 20 and one of 90.
C22_ExampleMatrix ==
    frame = ExampleFrame =>
        /\ GetTemperatureCelsius(frame).val = ExampleCelsius
        /\ OnWrapper("find_hotspot") =>
               last.res = "value" /\ last.val = <<<<1, 1>>, 90>>
        /\ (OnWrapper("get_area_temperature") /\ last.args = <<0, 0, 4, 3>>) =>
               /\ last.res = "value"
               /\ last.val[1] = 90
               /\ last.val[2] = 20
               /\ last.val[3][2] = 12
               /\ last.val[3][1] = 11 * 20 + 90

\* The whole-frame rectangle of the example was queried and gave 90, 20 and
\* 310 / 12.
C22_Witness ==
    /\ frame = ExampleFrame
    /\ OnWrapper("get_area_temperature")
    /\ last.args = <<0, 0, 4, 3>>
    /\ last.val = <<90, 20, <<310, 12>>>>

C26_WithBlockClosesSession ==
    \A s \in Sessions :
        /\ prog.blk[s] = "raised" =>
               State(s) = "Closed" /\ nat[s] = "closed"
        /\ prog.blk[s] \in {"body", "leaving"} => IsOpen(s)
        /\ prog.blk[s] \in {"exited", "exited_exc"} =>
               /\ State(s) = "Closed"
               /\ ~IsStreaming(s)
               /\ ~NativeIsOpen(nat[s])
               /\ ~NativeIsStreaming(nat[s])

\* A with-block whose body had started streaming was left by an exception,
\* and __exit__ closed the streaming session.
C26_Witness ==
    \E s \in Sessions :
        /\ prog.blk[s] = "exited_exc"
        /\ last.s = s /\ last.op = "close" /\ last.pre = "Streaming"
        /\ State(s) = "Closed"

OpenSessions == {s \in Sessions : IsOpen(s) \/ NativeIsOpen(nat[s])}

RECURSIVE Occurrences(_, _)
Occurrences(e, es) ==
    IF es = <<>> THEN 0
    ELSE (IF Head(es) = e THEN 1 ELSE 0) + Occurrences(e, Tail(es))

\* as occurs within bs, in order, other entries possibly in between.
RECURSIVE KeptInOrder(_, _)
KeptInOrder(as, bs) ==
    IF as = <<>> THEN TRUE
    ELSE IF bs = <<>> THEN FALSE
    ELSE IF Head(as) = Head(bs) THEN KeptInOrder(Tail(as), Tail(bs))
    ELSE KeptInOrder(as, Tail(bs))

\* The set-up function f has run and its directory exists.
SetUp(f) == f \in env.called /\ f \in env.exists

\* C29: whatever the variable held before, once a set-up function whose
\* library directory exists has run, one time or many, its directory is
\* exactly one of the variable's entries, and the entries that were there
\* before are all still there in their original order.
C29_SetupOnceAsEntry ==
    \A f \in {"package", "wrapper"} :
        SetUp(f) =>
            /\ Occurrences(Dir(f), Entries(env.val, PathSep(env.os))) = 1
            /\ KeptInOrder(Entries(env.prior, PathSep(env.os)),
                           Entries(env.val, PathSep(env.os)))

\* What does hold of the set-up functions: the directory name occurs
\* somewhere in the value, the previous value is the value's tail, and a
\* second call changes nothing.
C29_SetupContainsName ==
    \A f \in {"package", "wrapper"} :
        SetUp(f) =>
            /\ Contains(Dir(f), env.val)
            /\ \E k \in 0..Len(env.val) :
                   SubSeq(env.val, k + 1, Len(env.val)) = env.prior

\* The variable held only an entry whose name contains the directory's
\* name without being it; the set-up ran and the directory is no entry.
C29_Skipped ==
    /\ SetUp("package")
    /\ env.prior = PackageDir \o WrapperDir
    /\ Occurrences(PackageDir, Entries(env.val, PathSep(env.os))) = 0


\* ------------------------------------------- claims on the installer
\* The device query found the camera: it returned, successfully, with
\* output that is not blank.
FoundCamera == inst.check.res = "output" /\ inst.check.rc = 0
                   /\ inst.check.out # {}

\* install_driver() has been called.
InstallAttempted == "confirmed" \in {inst.steps[i] : i \in DOMAIN inst.steps}

\* C30: Zadig is launched only after, in this order, the platform was
\* found to be Windows, the process to have administrator privileges, the
\* device check to have found the camera without WinUSB installed, and the
\* user to have answered 'y'; and after an install attempt main returns 0
\* only if verify_installation saw the device with WinUSB and status OK.
C30_ZadigOnlyAfterChecks ==
    /\ inst.zadig = "launched" =>
           /\ SubSeq(inst.steps, 1, 4)
                  = <<"windows", "admin", "checked", "confirmed">>
           /\ FoundCamera
           /\ "winusb" \notin inst.check.out
           /\ inst.choice = "y"
    /\ (inst.pc = "returned" /\ InstallAttempted /\ inst.exit = 0) =>
           /\ inst.verify.res = "output"
           /\ inst.verify.rc = 0
           /\ {"winusb", "ok"} \subseteq inst.verify.out

\* What does hold of main(): the same, with a device check that raised
\* counting like one that found the camera without WinUSB.
C30_ZadigAfterChecksOrError ==
    /\ inst.zadig = "launched" =>
           /\ SubSeq(inst.steps, 1, 4)
                  = <<"windows", "admin", "checked", "confirmed">>
           /\ FoundCamera \/ inst.check.res = "raised"
           /\ "winusb" \notin inst.check.out
           /\ inst.choice = "y"
    /\ (inst.pc = "returned" /\ InstallAttempted /\ inst.exit = 0) =>
           /\ inst.verify.res = "output"
           /\ inst.verify.rc = 0
           /\ {"winusb", "ok"} \subseteq inst.verify.out

\* Zadig runs although the device query raised.
C30_LaunchedAfterError ==
    /\ inst.zadig = "launched"
    /\ inst.status = "error"

====
